---- MODULE Spec2Model ----
(***************************************************************************)
(* The notebook block analyzer of packages/reactivity: the scope-tracking  *)
(* VariableVisitor, the per-type block dispatcher and the batch driver, in *)
(* its two transports:                                                     *)
(*   embedded  src/packages/reactivity/src/ast-analyzer.py                 *)
(*   file      src/packages/reactivity/src/scripts/ast-analyzer.py         *)
(* Names and texts are sequences of one-character strings, so that         *)
(* sorting, sanitizing and pattern matching are computed, not assumed.     *)
(***************************************************************************)
EXTENDS Integers, Sequences, FiniteSets, TLC

VARIABLES
    transport,    \* "embedded" | "file": which analyzer runs
    container,    \* what the batch entry point is handed (blocks list or broken container)
    blocks,       \* the list of blocks being analysed
    pc,           \* position of the batch driver
    i,            \* index of the block the loop is at (1-based)
    analysis,     \* results appended so far
    visitor,      \* the VariableVisitor of the block being analysed
    work,         \* call stack of NodeVisitor.visit: nodes still to visit, scope exits
    raised,       \* class name of the exception on its way to the entry point's handler
    output,       \* what the entry point emits
    exit_status   \* << >>, or <<n>> once the process has ended with status n (file transport)

vars == <<transport, container, blocks, pc, i, analysis, visitor, work, raised, output,
          exit_status>>

(***************************************************************************)
(* Characters and the ordering of strings (Python compares str by code     *)
(* point, lexicographically).                                              *)
(***************************************************************************)
Range(s) == {s[k] : k \in 1..Len(s)}

\* code points 32..95 and 97..126
AsciiLow ==
    << " ", "!", "\"", "#", "$", "%", "&", "'", "(", ")", "*", "+", ",", "-", ".", "/",
       "0", "1", "2", "3", "4", "5", "6", "7", "8", "9", ":", ";", "<", "=", ">", "?",
       "@", "A", "B", "C", "D", "E", "F", "G", "H", "I", "J", "K", "L", "M", "N", "O",
       "P", "Q", "R", "S", "T", "U", "V", "W", "X", "Y", "Z", "[", "\\", "]", "^", "_" >>

AsciiHigh ==
    << "a", "b", "c", "d", "e", "f", "g", "h", "i", "j", "k", "l", "m", "n", "o", "p",
       "q", "r", "s", "t", "u", "v", "w", "x", "y", "z", "{", "|", "}", "~" >>

\* the code point of each character of the tables, and of tab and newline
CodePoint ==
    [c \in Range(AsciiLow) \cup Range(AsciiHigh) \cup {"\t", "\n"} |->
        IF c = "\t" THEN 9
        ELSE IF c = "\n" THEN 10
        ELSE IF \E k \in 1..Len(AsciiLow) : AsciiLow[k] = c
             THEN 31 + (CHOOSE k \in 1..Len(AsciiLow) : AsciiLow[k] = c)
             ELSE 96 + (CHOOSE k \in 1..Len(AsciiHigh) : AsciiHigh[k] = c)]

Ord(c) == CodePoint[c]

RECURSIVE StrLessFrom(_, _, _)
StrLessFrom(a, b, k) ==
    IF k > Len(a) THEN k <= Len(b)
    ELSE IF k > Len(b) THEN FALSE
    ELSE IF Ord(a[k]) < Ord(b[k]) THEN TRUE
    ELSE IF Ord(a[k]) > Ord(b[k]) THEN FALSE
    ELSE StrLessFrom(a, b, k + 1)

StrLess(a, b) == StrLessFrom(a, b, 1)

RECURSIVE sorted(_)
sorted(S) ==
    IF S = {} THEN << >>
    ELSE LET m == CHOOSE x \in S : \A y \in S \ {x} : StrLess(x, y)
         IN  <<m>> \o sorted(S \ {m})

\* list.sort() of a list that may hold duplicates: insertion into a sorted list
RECURSIVE InsertSorted(_, _)
InsertSorted(s, x) ==
    IF s = << >> THEN <<x>>
    ELSE IF StrLess(x, Head(s)) THEN <<x>> \o s
    ELSE <<Head(s)>> \o InsertSorted(Tail(s), x)

RECURSIVE list_sort(_)
list_sort(s) ==
    IF s = << >> THEN << >> ELSE InsertSorted(list_sort(Tail(s)), Head(s))

\* list(a_set): the iteration order of a Python set of str is not fixed
\* (hash randomisation); every order is a possible outcome.
ListsOf(S) == {s \in [1..Cardinality(S) -> S] : Range(s) = S}

builtins ==
    { <<"p","r","i","n","t">>, <<"l","e","n">>, <<"r","a","n","g","e">>,
      <<"s","t","r">>, <<"i","n","t">>, <<"f","l","o","a","t">>,
      <<"b","o","o","l">>, <<"l","i","s","t">>, <<"d","i","c","t">>,
      <<"s","e","t">>, <<"t","u","p","l","e">>, <<"a","b","s">>,
      <<"a","l","l">>, <<"a","n","y">>, <<"b","i","n">>,
      <<"c","a","l","l","a","b","l","e">>, <<"c","h","r">>, <<"d","i","r">>,
      <<"e","n","u","m","e","r","a","t","e">>, <<"e","v","a","l">>, <<"e","x","e","c">>,
      <<"f","i","l","t","e","r">>, <<"f","o","r","m","a","t">>, <<"g","e","t","a","t","t","r">>,
      <<"g","l","o","b","a","l","s">>, <<"h","a","s","a","t","t","r">>, <<"h","a","s","h">>,
      <<"h","e","l","p">>, <<"h","e","x">>, <<"i","d">>,
      <<"i","n","p","u","t">>, <<"i","s","i","n","s","t","a","n","c","e">>, <<"i","s","s","u","b","c","l","a","s","s">>,
      <<"i","t","e","r">>, <<"l","o","c","a","l","s">>, <<"m","a","p">>,
      <<"m","a","x">>, <<"m","i","n">>, <<"n","e","x","t">>,
      <<"o","c","t">>, <<"o","p","e","n">>, <<"o","r","d">>,
      <<"p","o","w">>, <<"r","e","p","r">>, <<"r","e","v","e","r","s","e","d">>,
      <<"r","o","u","n","d">>, <<"s","e","t","a","t","t","r">>, <<"s","o","r","t","e","d">>,
      <<"s","u","m">>, <<"t","y","p","e">>, <<"v","a","r","s">>,
      <<"z","i","p">>, <<"_","_","i","m","p","o","r","t","_","_">>, <<"T","r","u","e">>,
      <<"F","a","l","s","e">>, <<"N","o","n","e">> }

(***************************************************************************)
(* Syntax trees (what ast.parse returns).  One record shape for every node *)
(* class: kind is the class name, id the name/id/attr it carries, names    *)
(* the names of a Global (or the asname of an alias), and pre, kids, post  *)
(* the child nodes in the order of the class's _fields: for a def or class *)
(* pre is what precedes the body (arguments, bases), kids the body, post   *)
(* what follows it (decorator_list, returns).  Nodes without a visit_      *)
(* method and without children (ctx, operators) are left out.              *)
(***************************************************************************)
Node(kind, id, ctx, names, pre, kids, post) ==
    [kind |-> kind, id |-> id, ctx |-> ctx, names |-> names,
     pre |-> pre, kids |-> kids, post |-> post]

Leaf(kind, id, ctx) == Node(kind, id, ctx, << >>, << >>, << >>, << >>)
Inner(kind, kids) == Node(kind, << >>, "", << >>, << >>, kids, << >>)

Name(id, ctx) == Leaf("Name", id, ctx)
Load(id) == Name(id, "Load")
Store(id) == Name(id, "Store")
Constant == Leaf("Constant", << >>, "")
Attribute(value, attr, ctx) == Node("Attribute", attr, ctx, << >>, << >>, <<value>>, << >>)
Call(func, args) == Inner("Call", <<func>> \o args)
BinOp(left, right) == Inner("BinOp", <<left, right>>)
Expr(value) == Inner("Expr", <<value>>)
Assign(targets, value) == Inner("Assign", targets \o <<value>>)
AugAssign(target, value) == Inner("AugAssign", <<target, value>>)
AnnAssign(target, annotation, value) == Inner("AnnAssign", <<target, annotation, value>>)
NamedExpr(target, value) == Inner("NamedExpr", <<target, value>>)
Return(value) == Inner("Return", <<value>>)
Pass == Leaf("Pass", << >>, "")
Global(names) == Node("Global", << >>, "", names, << >>, << >>, << >>)
FunctionDef(name, args, body, decorators) ==
    Node("FunctionDef", name, "", << >>, args, body, decorators)
AsyncFunctionDef(name, args, body, decorators) ==
    Node("AsyncFunctionDef", name, "", << >>, args, body, decorators)
ClassDef(name, bases, body, decorators) ==
    Node("ClassDef", name, "", << >>, bases, body, decorators)
alias(name, asname) == Node("alias", name, "", asname, << >>, << >>, << >>)
Import(aliases) == Inner("Import", aliases)
ImportFrom(aliases) == Inner("ImportFrom", aliases)
Raise(exc) == Inner("Raise", <<exc>>)
ExceptHandler(type, body) == Inner("ExceptHandler", <<type>> \o body)
Try(body, handlers) == Inner("Try", body \o handlers)
Module(body) == Inner("Module", body)

Children(node) == node.pre \o node.kids \o node.post

(***************************************************************************)
(* VariableVisitor.  The object's fields are one record; each visit_       *)
(* method is the record after the method's own statements, and             *)
(* NodeVisitor's recursion (generic_visit) is the work stack below.        *)
(***************************************************************************)
VariableVisitor ==
    [global_vars |-> {}, used_global_vars |-> {}, imported_modules |-> {},
     scope_stack |-> << >>, function_globals |-> {}]

current_scope_is_global(v) == v.scope_stack = << >>

\* visit_Global if the declaration also bound its names at module level: the
\* variant C9 is checked against
visit_Global_binding(v, node) ==
    [v EXCEPT !.function_globals = @ \cup Range(node.names),
              !.global_vars = @ \cup Range(node.names)]

\* visit_Global if the declaration were dropped: the variant C22 is checked
\* against
visit_Global_dropped(v, node) == v

visit_Global(v, node) ==
    [v EXCEPT !.function_globals = @ \cup Range(node.names)]

\* the Name targets of an assignment statement: targets are all kids but the last
AssignTargets(node) == {node.kids[k] : k \in 1..(Len(node.kids) - 1)}

visit_Assign(v, node) ==
    IF current_scope_is_global(v)
    THEN [v EXCEPT !.global_vars =
              @ \cup {t.id : t \in {u \in AssignTargets(node) : u.kind = "Name"}}]
    ELSE v

\* visit_AugAssign, visit_AnnAssign and visit_NamedExpr: one target, kids[1]
visit_SingleTarget(v, node) ==
    IF node.kids[1].kind = "Name" /\ current_scope_is_global(v)
    THEN [v EXCEPT !.global_vars = @ \cup {node.kids[1].id}]
    ELSE v

\* visit_ClassDef if it entered no scope: the variant C28 is checked against
visit_ClassDef_no_scope(v, node) ==
    [v EXCEPT !.global_vars = IF current_scope_is_global(v) THEN @ \cup {node.id} ELSE @]

\* visit_ClassDef up to its generic_visit
visit_ClassDef(v, node) ==
    [v EXCEPT !.global_vars = IF current_scope_is_global(v) THEN @ \cup {node.id} ELSE @,
              !.scope_stack = Append(@, node.id)]

\* visit_ClassDef after its generic_visit
exit_ClassDef(v) ==
    [v EXCEPT !.scope_stack = SubSeq(@, 1, Len(@) - 1)]

\* visit_FunctionDef and visit_AsyncFunctionDef up to their generic_visit
visit_FunctionDef(v, node) ==
    [v EXCEPT !.global_vars = IF current_scope_is_global(v) THEN @ \cup {node.id} ELSE @,
              !.function_globals = {},
              !.scope_stack = Append(@, node.id)]

\* the return into visit_FunctionDef if function_globals were not restored:
\* the variant C30 is checked against
exit_FunctionDef_keep(v, prev_function_globals) ==
    [v EXCEPT !.scope_stack = SubSeq(@, 1, Len(@) - 1)]

\* visit_FunctionDef and visit_AsyncFunctionDef after their generic_visit
exit_FunctionDef(v, prev_function_globals) ==
    [v EXCEPT !.scope_stack = SubSeq(@, 1, Len(@) - 1),
              !.function_globals = prev_function_globals]

\* the three-way test shared by visit_Name (Load) and visit_Attribute
\* the use rule if a read at module scope counted only when bound or declared
\* before it: the variant C10 is checked against
CountsAsUsed_in_order(v, id) ==
    \/ id \in v.function_globals
    \/ id \in v.global_vars

\* the use rule if every read counted: the variant C26 is checked against
CountsAsUsed_always(v, id) == TRUE

CountsAsUsed(v, id) ==
    \/ current_scope_is_global(v)
    \/ id \in v.function_globals
    \/ id \in v.global_vars

\* visit_Name if a store counted in every scope: the variant C8 is checked
\* against
visit_Name_any_scope(v, node) ==
    IF node.ctx = "Load"
    THEN IF node.id \in builtins THEN v
         ELSE IF CountsAsUsed(v, node.id)
              THEN [v EXCEPT !.used_global_vars = @ \cup {node.id}]
              ELSE v
    ELSE IF node.ctx = "Store"
         THEN [v EXCEPT !.global_vars = @ \cup {node.id}]
         ELSE v

\* visit_Name if it left the store contexts to the assignment methods: the
\* variant C27 is checked against
visit_Name_loads(v, node) ==
    IF node.ctx = "Load" /\ node.id \notin builtins /\ CountsAsUsed(v, node.id)
    THEN [v EXCEPT !.used_global_vars = @ \cup {node.id}]
    ELSE v

visit_Name(v, node) ==
    IF node.ctx = "Load"
    THEN IF node.id \in builtins THEN v
         ELSE IF CountsAsUsed(v, node.id)
              THEN [v EXCEPT !.used_global_vars = @ \cup {node.id}]
              ELSE v
    ELSE IF node.ctx = "Store" /\ current_scope_is_global(v)
         THEN [v EXCEPT !.global_vars = @ \cup {node.id}]
         ELSE v

visit_Attribute(v, node) ==
    IF node.kids[1].kind = "Name" /\ CountsAsUsed(v, node.kids[1].id)
    THEN [v EXCEPT !.used_global_vars = @ \cup {node.kids[1].id}]
    ELSE v

\* visit_Import and visit_ImportFrom: alias.asname or alias.name
BoundName(a) == IF a.names # << >> /\ a.names[1] # << >> THEN a.names[1] ELSE a.id

\* visit_Import if it recorded the imported name and not the alias: the variant
\* C11 is checked against
visit_Import_name(v, node) ==
    [v EXCEPT !.imported_modules = @ \cup {node.kids[k].id : k \in 1..Len(node.kids)}]

visit_Import(v, node) ==
    [v EXCEPT !.imported_modules = @ \cup {BoundName(node.kids[k]) : k \in 1..Len(node.kids)}]

\* NodeVisitor.visit: the visit_<class> method if there is one, else generic_visit
visit(v, node) ==
    CASE node.kind = "Global" -> visit_Global(v, node)
      [] node.kind = "Assign" -> visit_Assign(v, node)
      [] node.kind \in {"AugAssign", "AnnAssign", "NamedExpr"} -> visit_SingleTarget(v, node)
      [] node.kind = "ClassDef" -> visit_ClassDef(v, node)
      [] node.kind \in {"FunctionDef", "AsyncFunctionDef"} -> visit_FunctionDef(v, node)
      [] node.kind = "Name" -> visit_Name(v, node)
      [] node.kind = "Attribute" -> visit_Attribute(v, node)
      [] node.kind \in {"Import", "ImportFrom"} -> visit_Import(v, node)
      [] OTHER -> v

\* the children the method goes on to visit: generic_visit visits them all, in
\* field order; visit_Import(From) visits none, visit_Attribute none when the
\* value is a Name
generic_visit(node) ==
    CASE node.kind \in {"Import", "ImportFrom"} -> << >>
      [] node.kind = "Attribute" /\ node.kids[1].kind = "Name" -> << >>
      [] OTHER -> Children(node)

\* frames of the call stack
NoNode == Leaf("", << >>, "")
VisitFrame(node) == [op |-> "visit", node |-> node, prev |-> {}]
ExitClassFrame == [op |-> "exit_class", node |-> NoNode, prev |-> {}]
ExitFunctionFrame(prev) == [op |-> "exit_func", node |-> NoNode, prev |-> prev]

VisitFrames(nodes) == [k \in 1..Len(nodes) |-> VisitFrame(nodes[k])]

\* what a method leaves on the stack to run after the node's children
AfterChildren(v, node) ==
    CASE node.kind = "ClassDef" -> <<ExitClassFrame>>
      [] node.kind \in {"FunctionDef", "AsyncFunctionDef"} ->
            <<ExitFunctionFrame(v.function_globals)>>
      [] OTHER -> << >>

\* one step of the walk: the visitor after the frame on top of the stack ...
walk_visitor(v, frame) ==
    CASE frame.op = "visit" -> visit(v, frame.node)
      [] frame.op = "exit_class" -> exit_ClassDef(v)
      [] frame.op = "exit_func" -> exit_FunctionDef(v, frame.prev)

\* ... and the stack after it
walk_work(v, wk) ==
    IF Head(wk).op = "visit"
    THEN VisitFrames(generic_visit(Head(wk).node))
            \o AfterChildren(v, Head(wk).node) \o Tail(wk)
    ELSE Tail(wk)

\* visitor.visit(tree) run to its end
RECURSIVE walk(_, _)
walk(v, wk) ==
    IF wk = << >> THEN v ELSE walk(walk_visitor(v, Head(wk)), walk_work(v, wk))

(***************************************************************************)
(* Texts.  A text is a list of lines.  A line is either raw characters     *)
(* (text) or a top-level statement, given by the tree ast.parse builds for *)
(* it (stmt); Python's grammar lets no statement begin with % or !.        *)
(***************************************************************************)
RawLine(text) == [text |-> text, stmt |-> NoNode]
StmtLine(stmt) == [text |-> << >>, stmt |-> stmt]
IsStmtLine(line) == line.stmt # NoNode

startswith(text, c) == text # << >> /\ text[1] = c

\* a loop body that takes an indented line for a magic too
comment_out_line_indented(line) ==
    IF startswith(line.text, "%") \/ startswith(line.text, "!") \/ startswith(line.text, " ")
    THEN [line EXCEPT !.text = <<"#">> \o @]
    ELSE line

\* the loop body of comment_out_jupyter_bash_commands, on one line
comment_out_line(line) ==
    IF startswith(line.text, "%") \/ startswith(line.text, "!")
    THEN [line EXCEPT !.text = <<"#">> \o @]
    ELSE line

\* comment_out_jupyter_bash_commands on one text (split, loop, join)
comment_out_text(lines) == [k \in 1..Len(lines) |-> comment_out_line(lines[k])]

IsSpace(c) == c \in {" ", "\t", "\n"}

RECURSIVE lstrip(_)
lstrip(s) == IF s # << >> /\ IsSpace(Head(s)) THEN lstrip(Tail(s)) ELSE s

\* ast.parse: a raw line is accepted only if it is blank or a comment
LineParses(line) ==
    \/ IsStmtLine(line)
    \/ lstrip(line.text) = << >>
    \/ startswith(lstrip(line.text), "#")

RECURSIVE StmtsOf(_)
StmtsOf(lines) ==
    IF lines = << >> THEN << >>
    ELSE (IF IsStmtLine(Head(lines)) THEN <<Head(lines).stmt>> ELSE << >>)
         \o StmtsOf(Tail(lines))

ParseFails(lines) == \E k \in 1..Len(lines) : ~LineParses(lines[k])

\* the class of the exception ast.parse raises, read at the first line it
\* rejects: an indented line where no block is open (statement lines are at
\* column 0 and their bodies indented by four) makes the tokenizer raise
\* IndentationError, any other makes the parser raise SyntaxError
ParseError(lines) ==
    LET bad == {k \in 1..Len(lines) : ~LineParses(lines[k])}
        first == CHOOSE k \in bad : \A j \in bad : k <= j
    IN  IF bad = {} THEN ""
        ELSE IF IsSpace(Head(lines[first].text)) THEN "IndentationError"
        ELSE "SyntaxError"
ast_parse(lines) == Module(StmtsOf(lines))

\* get_defined_used_variables on a text that parses: the visitor at the end
get_defined_used_variables(lines) ==
    walk(VariableVisitor, <<VisitFrame(ast_parse(lines))>>)

(***************************************************************************)
(* sanitize_python_variable_name                                           *)
(***************************************************************************)
Digits == {c \in DOMAIN CodePoint : CodePoint[c] \in 48..57}
Letters == {c \in DOMAIN CodePoint : CodePoint[c] \in 65..90 \/ CodePoint[c] \in 97..122}
WordChars == Digits \cup Letters \cup {"_"}
IsDigit(c) == c \in Digits
IsLetter(c) == c \in Letters
IsWord(c) == c \in WordChars

\* re.sub(r"\s+", "_", name)
RECURSIVE CollapseSpace(_)
CollapseSpace(s) ==
    IF s = << >> THEN << >>
    ELSE IF IsSpace(Head(s)) THEN <<"_">> \o CollapseSpace(lstrip(s))
    ELSE <<Head(s)>> \o CollapseSpace(Tail(s))

\* re.sub(r"[^0-9a-zA-Z_]", "", sanitized)
RECURSIVE KeepWord(_)
KeepWord(s) ==
    IF s = << >> THEN << >>
    ELSE (IF IsWord(Head(s)) THEN <<Head(s)>> ELSE << >>) \o KeepWord(Tail(s))

\* re.sub(r"^[^a-zA-Z_]+", "", sanitized)
StripLead_once(s) ==
    IF s # << >> /\ ~(IsLetter(Head(s)) \/ Head(s) = "_") THEN Tail(s) ELSE s

RECURSIVE StripLead(_)
StripLead(s) ==
    IF s # << >> /\ ~(IsLetter(Head(s)) \/ Head(s) = "_") THEN StripLead(Tail(s)) ELSE s

sanitize_python_variable_name(name) ==
    LET sanitized == StripLead(KeepWord(CollapseSpace(name)))
    IN  IF sanitized = << >> THEN <<"i","n","p","u","t","_","1">> ELSE sanitized

(***************************************************************************)
(* extract_jinja_variables.  The text of a query is its lines joined by    *)
(* "\n".  The regular expressions are computed on the characters.          *)
(***************************************************************************)
RECURSIVE JoinLines(_)
JoinLines(lines) ==
    IF lines = << >> THEN << >>
    ELSE IF Len(lines) = 1 THEN lines[1].text
    ELSE lines[1].text \o <<"\n">> \o JoinLines(Tail(lines))

From(s, k) == SubSeq(s, k, Len(s))
At2(s, k, a, b) == k + 1 <= Len(s) /\ s[k] = a /\ s[k + 1] = b

\* the length of the maximal run of \w (resp. \s) characters at the head of s
RECURSIVE WordRun(_)
WordRun(s) == IF s # << >> /\ IsWord(Head(s)) THEN 1 + WordRun(Tail(s)) ELSE 0

RECURSIVE SpaceRun(_)
SpaceRun(s) == IF s # << >> /\ IsSpace(Head(s)) THEN 1 + SpaceRun(Tail(s)) ELSE 0

\* the first k >= from with s[k], s[k+1] = a, b and, unless dotall, no "\n"
\* in between; 0 if there is none  (the tail of \{\{.*?\}\} and \{%.*?%\})
RECURSIVE FindClose(_, _, _, _, _)
FindClose(s, from, a, b, dotall) ==
    IF from + 1 > Len(s) THEN 0
    ELSE IF At2(s, from, a, b) THEN from
    ELSE IF ~dotall /\ s[from] = "\n" THEN 0
    ELSE FindClose(s, from + 1, a, b, dotall)

\* re.findall(r"\{\{\s*(\w+)", sql_code)
RECURSIVE FindJinjaNames(_)
FindJinjaNames(s) ==
    IF s = << >> THEN {}
    ELSE IF At2(s, 1, "{", "{")
         THEN LET rest == lstrip(From(s, 3))
                  n == WordRun(rest)
              IN  IF n > 0
                  THEN {SubSeq(rest, 1, n)} \cup FindJinjaNames(From(rest, n + 1))
                  ELSE FindJinjaNames(Tail(s))
    ELSE FindJinjaNames(Tail(s))

\* re.sub(open .*? close, "", s)
RECURSIVE RemoveRegions(_, _, _, _, _, _)
RemoveRegions(s, o1, o2, c1, c2, dotall) ==
    IF s = << >> THEN << >>
    ELSE IF At2(s, 1, o1, o2) /\ FindClose(s, 3, c1, c2, dotall) # 0
         THEN RemoveRegions(From(s, FindClose(s, 3, c1, c2, dotall) + 2),
                            o1, o2, c1, c2, dotall)
    ELSE <<Head(s)>> \o RemoveRegions(Tail(s), o1, o2, c1, c2, dotall)

clean_sql(sql_code) ==
    RemoveRegions(RemoveRegions(sql_code, "{", "{", "}", "}", FALSE),
                  "{", "%", "%", "}", TRUE)

LowerOf == [c \in DOMAIN CodePoint |->
               IF CodePoint[c] \in 65..90 THEN AsciiHigh[CodePoint[c] - 64] ELSE c]
ToLower(c) == LowerOf[c]
lower(s) == [k \in 1..Len(s) |-> ToLower(s[k])]

IsIdentStart(c) == IsLetter(c) \/ c = "_"

\* whether keyword kw, then \s+, then an identifier match at the head of s;
\* the length matched and the identifier
KeywordMatch(s, kw) ==
    LET n == Len(kw)
        sp == IF Len(s) > n THEN SpaceRun(From(s, n + 1)) ELSE 0
        rest == From(s, n + sp + 1)
        idl == WordRun(rest)
        ok == /\ Len(s) > n
              /\ lower(SubSeq(s, 1, n)) = lower(kw)
              /\ sp > 0
              /\ rest # << >> /\ IsIdentStart(rest[1])
    IN  [ok |-> ok, len |-> IF ok THEN n + sp + idl ELSE 0,
         ident |-> IF ok THEN SubSeq(rest, 1, idl) ELSE << >>]

\* re.findall(r"\bKW\s+([a-zA-Z_][a-zA-Z0-9_]*)", s, re.IGNORECASE); prev is
\* the character before s ("" at the start), for \b
RECURSIVE FindAfterKeyword(_, _, _)
FindAfterKeyword(s, prev, kw) ==
    IF s = << >> THEN {}
    ELSE LET m == KeywordMatch(s, kw)
         IN  IF (prev = "" \/ ~IsWord(prev)) /\ m.ok
             THEN {m.ident} \cup FindAfterKeyword(From(s, m.len + 1), s[m.len], kw)
             ELSE FindAfterKeyword(Tail(s), Head(s), kw)

table_patterns == { <<"F","R","O","M">>, <<"J","O","I","N">>, <<"I","N","T","O">>, <<"U","P","D","A","T","E">> }

\* a stoplist of two words
sql_keywords_short ==
    { <<"s","e","l","e","c","t">>, <<"w","h","e","r","e">> }

sql_keywords ==
    { <<"s","e","l","e","c","t">>, <<"w","h","e","r","e">>, <<"g","r","o","u","p">>,
      <<"o","r","d","e","r">>, <<"h","a","v","i","n","g">>, <<"l","i","m","i","t">>,
      <<"o","f","f","s","e","t">>, <<"u","n","i","o","n">>, <<"i","n","t","e","r","s","e","c","t">>,
      <<"e","x","c","e","p","t">> }

\* the loop over table_patterns
sql_variables(sql_code) ==
    {m \in UNION {FindAfterKeyword(clean_sql(sql_code), "", kw) : kw \in table_patterns} :
        lower(m) \notin sql_keywords}

\* extract_jinja_variables without the relation names: the variant C12 is
\* checked against
extract_jinja_variables_step1(sql_code) == FindJinjaNames(sql_code)

\* the embedded transport: regular expression only
extract_jinja_variables_regex(sql_code) ==
    FindJinjaNames(sql_code) \cup sql_variables(sql_code)

(***************************************************************************)
(* The file transport's extract_jinja_variables asks jinja2 for the        *)
(* undeclared variables of the template: Environment.parse, then           *)
(* meta.find_undeclared_variables.  jinja2 is modelled on the templates    *)
(* made of {{ expression }}, {# comment #} and the tags for/endfor,        *)
(* if/elif/else/endif and set; it raises on anything else.                 *)
(***************************************************************************)
\* the index of the quote closing a string literal opened at s[1], or Len(s)
RECURSIVE CloseQuote(_, _, _)
CloseQuote(s, k, q) ==
    IF k >= Len(s) THEN Len(s) ELSE IF s[k] = q THEN k ELSE CloseQuote(s, k + 1, q)

\* jinja2's lexer inside a tag: names and numbers, string literals, operators
RECURSIVE Tokens(_)
Tokens(s) ==
    IF s = << >> THEN << >>
    ELSE IF IsSpace(Head(s)) THEN Tokens(lstrip(s))
    ELSE IF IsWord(Head(s))
         THEN <<SubSeq(s, 1, WordRun(s))>> \o Tokens(From(s, WordRun(s) + 1))
    ELSE IF Head(s) \in {"'", "\""}
         THEN <<<<"'">>>> \o Tokens(From(s, CloseQuote(s, 2, Head(s)) + 1))
    ELSE <<<<Head(s)>>>> \o Tokens(Tail(s))

jinja_keywords ==
    { <<"a","n","d">>, <<"o","r">>, <<"n","o","t">>, <<"i","n">>, <<"i","s">>,
      <<"i","f">>, <<"e","l","s","e">>, <<"t","r","u","e">>, <<"f","a","l","s","e">>, <<"n","o","n","e">>,
      <<"T","r","u","e">>, <<"F","a","l","s","e">>, <<"N","o","n","e">> }

\* filters of the environment: jinja2's own and the three registered no-ops
env_filters ==
    { <<"i","n","c","l","a","u","s","e">>, <<"b","i","n","d">>, <<"s","q","l","s","a","f","e">>,
      <<"u","p","p","e","r">>, <<"l","o","w","e","r">>, <<"j","o","i","n">>,
      <<"d","e","f","a","u","l","t">>, <<"l","e","n","g","t","h">>, <<"i","n","t">>,
      <<"s","t","r","i","n","g">>, <<"t","r","i","m">>, <<"s","a","f","e">> }

IsNameToken(tok) == IsIdentStart(tok[1]) /\ tok \notin jinja_keywords

\* names an expression loads: not attribute names, not filter names
ExprNames(toks) ==
    {toks[k] : k \in {j \in 1..Len(toks) :
        IsNameToken(toks[j]) /\ (j = 1 \/ toks[j - 1] \notin {<<".">>, <<"|">>})}}

UnknownFilter(toks) ==
    \E k \in 2..Len(toks) : toks[k - 1] = <<"|">> /\ toks[k] \notin env_filters

IndexOf(toks, tok) ==
    IF \E k \in 1..Len(toks) : toks[k] = tok
    THEN CHOOSE k \in 1..Len(toks) : toks[k] = tok /\ \A j \in 1..(k - 1) : toks[j] # tok
    ELSE 0

JinjaFail == [ok |-> FALSE, vars |-> {}]
Declared(frames) == UNION {frames[k].declared : k \in 1..Len(frames)}
Pop(frames) == SubSeq(frames, 1, Len(frames) - 1)
Top(frames) == frames[Len(frames)]

\* set declares its target in the innermost frame that is a scope (if is none)
RECURSIVE DeclareIn(_, _)
DeclareIn(frames, name) ==
    IF Len(frames) = 1 \/ Top(frames).tag # "if"
    THEN [frames EXCEPT ![Len(frames)].declared = @ \cup {name}]
    ELSE Append(DeclareIn(Pop(frames), name), Top(frames))

RECURSIVE JinjaScan(_, _, _)
\* one {% tag %}: toks are its tokens, rest the text after it
JinjaTag(toks, rest, frames, undeclared) ==
    LET tag == IF toks = << >> THEN << >> ELSE toks[1]
        args == IF toks = << >> THEN << >> ELSE Tail(toks)
        loads(e) == ExprNames(e) \ Declared(frames)
        in == IndexOf(args, <<"i","n">>)
        eq == IndexOf(args, <<"=">>)
    IN  IF toks = << >> \/ UnknownFilter(toks) THEN JinjaFail
        ELSE IF tag = <<"f","o","r">>
             THEN IF in < 2 \/ in = Len(args) THEN JinjaFail
                  ELSE JinjaScan(rest,
                           Append(frames, [tag |-> "for",
                                           declared |-> ExprNames(SubSeq(args, 1, in - 1))]),
                           undeclared \cup loads(From(args, in + 1)))
        ELSE IF tag = <<"e","n","d","f","o","r">>
             THEN IF Top(frames).tag # "for" THEN JinjaFail
                  ELSE JinjaScan(rest, Pop(frames), undeclared)
        ELSE IF tag = <<"i","f">>
             THEN IF args = << >> THEN JinjaFail
                  ELSE JinjaScan(rest, Append(frames, [tag |-> "if", declared |-> {}]),
                                 undeclared \cup loads(args))
        ELSE IF tag = <<"e","l","i","f">>
             THEN IF Top(frames).tag # "if" \/ args = << >> THEN JinjaFail
                  ELSE JinjaScan(rest, frames, undeclared \cup loads(args))
        ELSE IF tag = <<"e","l","s","e">>
             THEN IF Top(frames).tag = "root" THEN JinjaFail
                  ELSE JinjaScan(rest, frames, undeclared)
        ELSE IF tag = <<"e","n","d","i","f">>
             THEN IF Top(frames).tag # "if" THEN JinjaFail
                  ELSE JinjaScan(rest, Pop(frames), undeclared)
        ELSE IF tag = <<"s","e","t">>
             THEN IF eq # 2 \/ Len(args) < 3 \/ ~IsNameToken(args[1]) THEN JinjaFail
                  ELSE JinjaScan(rest, DeclareIn(frames, args[1]),
                                 undeclared \cup loads(From(args, 3)))
        ELSE JinjaFail

JinjaScan(s, frames, undeclared) ==
    IF s = << >>
    THEN IF Len(frames) = 1 THEN [ok |-> TRUE, vars |-> undeclared] ELSE JinjaFail
    ELSE IF At2(s, 1, "{", "{")
         THEN LET close == FindClose(s, 3, "}", "}", TRUE)
                  toks == Tokens(SubSeq(s, 3, close - 1))
              IN  IF close = 0 \/ toks = << >> \/ UnknownFilter(toks) THEN JinjaFail
                  ELSE JinjaScan(From(s, close + 2), frames,
                                 undeclared \cup (ExprNames(toks) \ Declared(frames)))
    ELSE IF At2(s, 1, "{", "%")
         THEN LET close == FindClose(s, 3, "%", "}", TRUE)
              IN  IF close = 0 THEN JinjaFail
                  ELSE JinjaTag(Tokens(SubSeq(s, 3, close - 1)), From(s, close + 2),
                                frames, undeclared)
    ELSE IF At2(s, 1, "{", "#")
         THEN LET close == FindClose(s, 3, "#", "}", TRUE)
              IN  IF close = 0 THEN JinjaFail
                  ELSE JinjaScan(From(s, close + 2), frames, undeclared)
    ELSE JinjaScan(Tail(s), frames, undeclared)

\* env.parse(sql_code) and meta.find_undeclared_variables(parsed_content)
find_undeclared_variables(sql_code) ==
    JinjaScan(sql_code, <<[tag |-> "root", declared |-> {}]>>, {})

\* the file transport: raises (ok = FALSE) when jinja2 does
extract_jinja_variables_jinja(sql_code) ==
    LET found == find_undeclared_variables(sql_code)
    IN  [ok |-> found.ok,
         vars |-> IF found.ok THEN found.vars \cup sql_variables(sql_code) ELSE {}]

(***************************************************************************)
(* Blocks and results.                                                     *)
(*   shape     "dict", or "other" for a list entry that is no JSON object  *)
(*   has_id/id the id field ("blockId" embedded, "id" file)                *)
(*   type      the type as characters, PyNone when absent or null          *)
(*   content   the source field ("code" embedded, "content" file): kind    *)
(*             "str", "missing" or "null", and its lines                   *)
(*   metadata  kind "missing", "null", "dict" or "other" (a JSON number)   *)
(***************************************************************************)
PyNone == <<"None">>

\* a field of a JSON object that holds a string, null, or is absent
Absent == [kind |-> "absent", s |-> << >>]
Null == [kind |-> "null", s |-> << >>]
Str(s) == [kind |-> "str", s |-> s]
Truthy(val) == val.kind = "str" /\ val.s # << >>    \* d.get(key) as a condition
Present(val) == val.kind # "absent"                 \* key in d
ValueOf(val) == IF val.kind = "str" THEN val.s ELSE PyNone

Metadata(kind, name, value, comparison, inputs, exports) ==
    [kind |-> kind,
     deepnote_variable_name |-> name,
     deepnote_big_number_value |-> value,
     deepnote_big_number_comparison_value |-> comparison,
     function_notebook_inputs |-> inputs,
     function_notebook_export_mappings |-> exports]

NoList == [present |-> FALSE, items |-> << >>]
EmptyDict == Metadata("dict", Absent, Absent, Absent, NoList, NoList)
NoMetadata == [EmptyDict EXCEPT !.kind = "missing"]

Content(kind, lines) == [kind |-> kind, lines |-> lines]

Block(id, type, content, metadata) ==
    [shape |-> "dict", has_id |-> TRUE, id |-> id, type |-> type,
     content |-> content, metadata |-> metadata]

NoError == [present |-> FALSE, type |-> ""]
Result(id, defined, used, imported) ==
    [id |-> id, definedVariables |-> defined, usedVariables |-> used,
     importedModules |-> imported, error |-> NoError]
EmptyResult(id) == Result(id, << >>, << >>, << >>)
ErrorResult(id, type) ==
    [EmptyResult(id) EXCEPT !.error = [present |-> TRUE, type |-> type]]

\* what handling one block comes to before any tree is walked:
\*   "result"  a result is produced      "walk"    the parsed tree is walked next
\*   "skip"    nothing is appended       "escape"  an exception leaves the handler
Produces(result) == [kind |-> "result", result |-> result, exc |-> ""]
Walks == [kind |-> "walk", result |-> EmptyResult(""), exc |-> ""]
Skips == [kind |-> "skip", result |-> EmptyResult(""), exc |-> ""]
Escapes(exc) == [kind |-> "escape", result |-> EmptyResult(""), exc |-> exc]

t_code == <<"c","o","d","e">>
t_sql == <<"s","q","l">>
t_button == <<"b","u","t","t","o","n">>
t_big_number == <<"b","i","g","-","n","u","m","b","e","r">>
t_notebook_function == <<"n","o","t","e","b","o","o","k","-","f","u","n","c","t","i","o","n">>
input_prefix == <<"i","n","p","u","t","-">>

\* the input types the file transport lists
input_types ==
    { <<"i","n","p","u","t","-","t","e","x","t">>,
      <<"i","n","p","u","t","-","t","e","x","t","a","r","e","a">>,
      <<"i","n","p","u","t","-","f","i","l","e">>,
      <<"i","n","p","u","t","-","s","e","l","e","c","t">>,
      <<"i","n","p","u","t","-","d","a","t","e">>,
      <<"i","n","p","u","t","-","d","a","t","e","-","r","a","n","g","e">>,
      <<"i","n","p","u","t","-","s","l","i","d","e","r">>,
      <<"i","n","p","u","t","-","c","h","e","c","k","b","o","x">>,
      <<"i","n","p","u","t","-","n","u","m","b","e","r">>,
      <<"i","n","p","u","t","-","d","r","o","p","d","o","w","n">> }

startswith_input(type) ==
    Len(type) >= Len(input_prefix) /\ SubSeq(type, 1, Len(input_prefix)) = input_prefix

\* [metadata["deepnote_variable_name"]] if the dict.get is truthy (embedded)
output_variables_embedded(metadata) ==
    IF Truthy(metadata.deepnote_variable_name)
    THEN <<metadata.deepnote_variable_name.s>> ELSE << >>

\* "metadata" in block and block["metadata"] and key in block["metadata"]
HasKey(metadata, val) == metadata.kind = "dict" /\ Present(val)

\* [block["metadata"]["deepnote_variable_name"]] if the key is there (file)
output_variables_file(metadata) ==
    IF HasKey(metadata, metadata.deepnote_variable_name)
    THEN <<ValueOf(metadata.deepnote_variable_name)>> ELSE << >>

\* list.sort() raises TypeError on a list mixing None and str
SortRaises(S) == PyNone \in S /\ Cardinality(S) > 1

big_number_used_embedded(metadata) ==
    {v.s : v \in {w \in {metadata.deepnote_big_number_value,
                         metadata.deepnote_big_number_comparison_value} : Truthy(w)}}

big_number_used_file(metadata) ==
    {ValueOf(v) : v \in {w \in {metadata.deepnote_big_number_value,
                                metadata.deepnote_big_number_comparison_value} :
                            HasKey(metadata, w)}}

\* the notebook-function loops: the sanitized names of the configured items
\* that pass the flag test and have a truthy variable_name, in order
RECURSIVE function_variables(_)
function_variables(items) ==
    IF items = << >> THEN << >>
    ELSE (IF Head(items).flag /\ Truthy(Head(items).variable_name)
          THEN <<sanitize_python_variable_name(Head(items).variable_name.s)>>
          ELSE << >>) \o function_variables(Tail(items))

(***************************************************************************)
(* The block dispatcher, up to the point where a tree is walked.           *)
(***************************************************************************)
\* embedded: analyze_block
analyze_block(block) ==
    IF block.shape # "dict" THEN Escapes("AttributeError")
    ELSE IF ~block.has_id THEN Produces(ErrorResult("unknown", "KeyError"))
    ELSE
    LET block_type == IF block.type \in {PyNone, << >>} THEN t_code ELSE block.type
        code == IF block.content.kind = "missing" THEN Content("str", << >>)
                ELSE block.content
        metadata == IF block.metadata.kind \in {"missing", "null"} THEN EmptyDict
                    ELSE block.metadata
        block_id == block.id
        Caught(type) == Produces(ErrorResult(block_id, type))
    IN  IF block_type = t_code
        THEN IF code.kind # "str" THEN Caught("AttributeError")
             ELSE IF ParseFails(comment_out_text(code.lines))
                  THEN Caught(ParseError(comment_out_text(code.lines)))
             ELSE Walks
        ELSE IF block_type = t_sql
        THEN IF code.kind # "str" THEN Caught("TypeError")
             ELSE IF metadata.kind # "dict" THEN Caught("AttributeError")
             ELSE Produces(Result(block_id, output_variables_embedded(metadata),
                      sorted(extract_jinja_variables_regex(JoinLines(code.lines))), << >>))
        ELSE IF block_type = t_button
        THEN IF metadata.kind # "dict" THEN Caught("AttributeError")
             ELSE Produces(Result(block_id, output_variables_embedded(metadata),
                                  << >>, << >>))
        ELSE IF block_type = t_big_number
        THEN IF metadata.kind # "dict" THEN Caught("AttributeError")
             ELSE Produces(Result(block_id, << >>,
                                  sorted(big_number_used_embedded(metadata)), << >>))
        ELSE IF startswith_input(block_type)
        THEN IF metadata.kind # "dict" THEN Caught("AttributeError")
             ELSE Produces(Result(block_id,
                      IF Truthy(metadata.deepnote_variable_name)
                      THEN <<sanitize_python_variable_name(metadata.deepnote_variable_name.s)>>
                      ELSE << >>,
                      << >>, << >>))
        ELSE Produces(EmptyResult(block_id))

\* file: one iteration of the loop of analyze_blocks.  Every append, and the
\* except clause too, reads block["id"]: without an id the KeyError leaves the loop.
analyze_blocks_iteration(block) ==
    IF block.shape # "dict" THEN Escapes("TypeError")
    ELSE
    LET type == block.type
        metadata == block.metadata
        Appends(result) == IF block.has_id THEN Produces(result) ELSE Escapes("KeyError")
        Caught(exctype) == Appends(ErrorResult(block.id, exctype))
        BadMetadata == metadata.kind = "other"
    IN  IF type \in {t_code, PyNone}
        THEN IF block.content.kind = "missing" THEN Caught("KeyError")
             ELSE IF block.content.kind # "str" THEN Caught("TypeError")
             ELSE IF ParseFails(block.content.lines)
                  THEN Caught(ParseError(block.content.lines))
             ELSE Walks
        ELSE IF type = t_sql
        THEN IF block.content.kind = "missing" THEN Caught("KeyError")
             ELSE IF block.content.kind # "str" THEN Caught("TypeError")
             ELSE LET found == extract_jinja_variables_jinja(JoinLines(block.content.lines))
                  IN  IF ~found.ok THEN Caught("TemplateSyntaxError")
                      ELSE IF BadMetadata THEN Caught("TypeError")
                      ELSE Appends(Result(block.id, output_variables_file(metadata),
                                          sorted(found.vars), << >>))
        ELSE IF type = t_button
        THEN IF BadMetadata THEN Caught("TypeError")
             ELSE Appends(Result(block.id, output_variables_file(metadata), << >>, << >>))
        ELSE IF type = t_big_number
        THEN IF BadMetadata \/ SortRaises(big_number_used_file(metadata))
             THEN Caught("TypeError")
             ELSE Appends(Result(block.id, << >>,
                                 sorted(big_number_used_file(metadata)), << >>))
        ELSE IF type = t_notebook_function
        THEN IF BadMetadata THEN Caught("TypeError")
             ELSE Appends(Result(block.id,
                      list_sort(IF metadata.kind = "dict"
                                THEN function_variables(
                                         metadata.function_notebook_export_mappings.items)
                                ELSE << >>),
                      list_sort(IF metadata.kind = "dict"
                                THEN function_variables(metadata.function_notebook_inputs.items)
                                ELSE << >>),
                      << >>))
        ELSE IF type \in input_types
        THEN IF BadMetadata THEN Caught("TypeError")
             ELSE Appends(Result(block.id,
                      IF HasKey(metadata, metadata.deepnote_variable_name)
                         /\ metadata.deepnote_variable_name.kind = "str"
                      THEN <<sanitize_python_variable_name(metadata.deepnote_variable_name.s)>>
                      ELSE << >>,
                      << >>, << >>))
        ELSE Skips

Dispatch(t, block) ==
    IF t = "embedded" THEN analyze_block(block) ELSE analyze_blocks_iteration(block)

\* the source lines ast.parse is given: embedded comments the magics out in
\* analyze_block; file has done so for every block before the loop
ParsedLines(t, block) ==
    IF t = "embedded"
    THEN comment_out_text(IF block.content.kind = "missing" THEN << >>
                          ELSE block.content.lines)
    ELSE block.content.lines

\* file: comment_out_jupyter_bash_commands(blocks), block by block
CommentOutRaises(block) ==
    IF block.shape # "dict" THEN "TypeError"
    ELSE IF block.content.kind = "null" THEN "AttributeError"
    ELSE ""

\* a file transport that leaves the magics in place
comment_out_block_skipped(block) == block

comment_out_block(block) ==
    IF block.shape = "dict" /\ block.content.kind = "str"
    THEN [block EXCEPT !.content.lines = comment_out_text(@)]
    ELSE block

comment_out_jupyter_bash_commands(bs) ==
    LET bad == {k \in 1..Len(bs) : CommentOutRaises(bs[k]) # ""}
        first == CHOOSE k \in bad : \A j \in bad : k <= j
    IN  IF bad = {}
        THEN [raises |-> "", blocks |-> [k \in 1..Len(bs) |-> comment_out_block(bs[k])]]
        ELSE [raises |-> CommentOutRaises(bs[first]), blocks |-> bs]

(***************************************************************************)
(* The batch driver: analyze_blocks (embedded), main + analyze_blocks      *)
(* (file).  container.state is "ok", or why the container cannot be had:   *)
(* "unreadable" (file: open fails), "invalid_json", "no_blocks" (file: no  *)
(* "blocks" key).                                                          *)
(***************************************************************************)
NoOutput == [kind |-> "none", results |-> << >>, message |-> ""]
ResultsOutput(results) == [kind |-> "results", results |-> results, message |-> ""]
ErrorOutput(type) == [kind |-> "errorMessage", results |-> << >>, message |-> type]

ContainerRaises(t, c) ==
    CASE c.state = "unreadable" -> "FileNotFoundError"
      [] c.state = "invalid_json" -> "JSONDecodeError"
      [] c.state = "no_blocks" -> "KeyError"
      [] OTHER -> ""

\* entry: read and parse the container; file then comments out the magics
Start ==
    /\ pc = "start"
    /\ LET failed == ContainerRaises(transport, container)
           commented == comment_out_jupyter_bash_commands(container.blocks)
       IN  IF failed # ""
           THEN /\ pc' = "raise" /\ raised' = failed /\ UNCHANGED blocks
           ELSE IF transport = "file" /\ commented.raises # ""
           THEN /\ pc' = "raise" /\ raised' = commented.raises /\ UNCHANGED blocks
           ELSE /\ pc' = "loop"
                /\ blocks' = IF transport = "file" THEN commented.blocks
                             ELSE container.blocks
                /\ UNCHANGED raised
    /\ i' = 1
    /\ UNCHANGED <<transport, container, analysis, visitor, work, output, exit_status>>

\* a block that needs no tree walk: its result is appended, or (file, type
\* not handled) nothing is
AnalyzeBlock ==
    /\ pc = "loop" /\ i <= Len(blocks)
    /\ LET o == Dispatch(transport, blocks[i])
       IN  /\ o.kind \in {"result", "skip"}
           /\ analysis' = IF o.kind = "result" THEN Append(analysis, o.result)
                          ELSE analysis
    /\ i' = i + 1
    /\ UNCHANGED <<transport, container, blocks, pc, visitor, work, raised, output,
                   exit_status>>

\* a block whose exception is not caught in the loop
BlockEscapes ==
    /\ pc = "loop" /\ i <= Len(blocks)
    /\ LET o == Dispatch(transport, blocks[i])
       IN  /\ o.kind = "escape"
           /\ raised' = o.exc
    /\ pc' = "raise"
    /\ UNCHANGED <<transport, container, blocks, i, analysis, visitor, work, output,
                   exit_status>>

\* get_defined_used_variables: a new visitor, ast.parse, visitor.visit(tree)
BeginCode ==
    /\ pc = "loop" /\ i <= Len(blocks)
    /\ Dispatch(transport, blocks[i]).kind = "walk"
    /\ visitor' = VariableVisitor
    /\ work' = <<VisitFrame(ast_parse(ParsedLines(transport, blocks[i])))>>
    /\ pc' = "walk"
    /\ UNCHANGED <<transport, container, blocks, i, analysis, raised, output, exit_status>>

\* one call of NodeVisitor.visit, or the return into a def's or class's method
WalkStep ==
    /\ pc = "walk" /\ work # << >>
    /\ visitor' = walk_visitor(visitor, Head(work))
    /\ work' = walk_work(visitor, work)
    /\ UNCHANGED <<transport, container, blocks, pc, i, analysis, raised, output,
                   exit_status>>

\* the walk is over: the sets become sorted lists and the result is appended
EndCode ==
    /\ pc = "walk" /\ work = << >>
    /\ blocks[i].has_id
    /\ \E imported \in ListsOf(visitor.imported_modules) :
          analysis' = Append(analysis,
                             Result(blocks[i].id, sorted(visitor.global_vars),
                                    sorted(visitor.used_global_vars), imported))
    /\ pc' = "loop"
    /\ i' = i + 1
    /\ UNCHANGED <<transport, container, blocks, visitor, work, raised, output,
                   exit_status>>

\* file: block["id"] raises KeyError in the append and again in the except clause
EndCodeEscapes ==
    /\ pc = "walk" /\ work = << >>
    /\ ~blocks[i].has_id
    /\ raised' = "KeyError"
    /\ pc' = "raise"
    /\ UNCHANGED <<transport, container, blocks, i, analysis, visitor, work, output,
                   exit_status>>

\* every block is done: the results are returned (embedded) or written (file)
Finish ==
    /\ pc = "loop" /\ i > Len(blocks)
    /\ output' = ResultsOutput(analysis)
    /\ exit_status' = IF transport = "file" THEN <<0>> ELSE << >>
    /\ pc' = "done"
    /\ UNCHANGED <<transport, container, blocks, i, analysis, visitor, work, raised>>

\* the except clause of main without its sys.exit(1): the variant C4 is
\* checked against
TotalFailureExitsZero ==
    /\ pc = "raise"
    /\ output' = ErrorOutput(raised)
    /\ exit_status' = IF transport = "file" THEN <<0>> ELSE << >>
    /\ pc' = "done"
    /\ UNCHANGED <<transport, container, blocks, i, analysis, visitor, work, raised>>

\* the entry point's except clause
TotalFailure ==
    /\ pc = "raise"
    /\ output' = ErrorOutput(raised)
    /\ exit_status' = IF transport = "file" THEN <<1>> ELSE << >>
    /\ pc' = "done"
    /\ UNCHANGED <<transport, container, blocks, i, analysis, visitor, work, raised>>

(***************************************************************************)
(* Names used by the inputs.                                               *)
(***************************************************************************)
n_a == <<"a">>
n_b == <<"b">>
n_x == <<"x">>
n_y == <<"y">>
n_f == <<"f">>
n_g == <<"g">>
n_C == <<"C">>
n_str == <<"s","t","r">>
n_join == <<"j","o","i","n">>
n_pd == <<"p","d">>
n_pandas == <<"p","a","n","d","a","s">>
n_df == <<"d","f">>
n_DataFrame == <<"D","a","t","a","F","r","a","m","e">>
n_ValueError == <<"V","a","l","u","e","E","r","r","o","r">>
n_Exception == <<"E","x","c","e","p","t","i","o","n">>

(***************************************************************************)
(* The batches of Spec: up to MaxBlocks blocks drawn from BlockUniverse,   *)
(* which holds the blocks of test-ast-analyzer.py, one block of each type  *)
(* and one of each way a block can be malformed.  Ids are given by         *)
(* position, so that the order of the results can be read off them.        *)
(***************************************************************************)
MaxBlocks == 2

BlockIds == <<"1", "2", "3", "4">>

Code(stmts) == Content("str", [k \in 1..Len(stmts) |-> StmtLine(stmts[k])])
Text(lines) == Content("str", [k \in 1..Len(lines) |-> RawLine(lines[k])])
Named(name) == [EmptyDict EXCEPT !.deepnote_variable_name = Str(name)]

\* a = 42
stmt_a == Assign(<<Store(n_a)>>, Constant)
\* b = 1 + a
stmt_b == Assign(<<Store(n_b)>>, BinOp(Constant, Load(n_a)))
\* try: raise ValueError('error')  /  except Exception: pass
stmt_try ==
    Try(<<Raise(Call(Load(n_ValueError), <<Constant>>))>>,
        <<ExceptHandler(Load(n_Exception), <<Pass>>)>>)
\* import pandas as pd
stmt_import == Import(<<alias(n_pandas, <<n_pd>>)>>)
\* df = pd.DataFrame()
stmt_df == Assign(<<Store(n_df)>>, Call(Attribute(Load(n_pd), n_DataFrame, "Load"), << >>))

\* SELECT * FROM users WHERE id == {{someVariable}}
sql_test ==
    <<"S","E","L","E","C","T"," ","*"," ","F","R","O","M"," ","u","s","e","r","s",
     " ","W","H","E","R","E"," ","i","d"," ","=","="," ","{","{","s","o","m","e",
     "V","a","r","i","a","b","l","e","}","}">>

b_code_a == Block("", t_code, Code(<<stmt_a>>), NoMetadata)
b_code_b == Block("", t_code, Code(<<stmt_b>>), NoMetadata)
b_sql == Block("", t_sql, Text(<<sql_test>>), NoMetadata)
b_code_try == Block("", t_code, Code(<<stmt_try>>), NoMetadata)
b_code_import == Block("", t_code, Code(<<stmt_import, stmt_df>>), NoMetadata)
\* x = (
b_code_unparsable == Block("", t_code, Text(<<<<"x"," ","="," ","(">>>>), NoMetadata)
\* %ls  /  a = 42
b_code_magic ==
    Block("", t_code, Content("str", <<RawLine(<<"%","l","s">>), StmtLine(stmt_a)>>),
          NoMetadata)
b_notype == Block("", PyNone, Code(<<stmt_a>>), NoMetadata)
b_button == Block("", t_button, Text(<< >>), Named(n_b))
b_big_number ==
    Block("", t_big_number, Text(<< >>),
          [EmptyDict EXCEPT !.deepnote_big_number_value = Str(n_b),
                            !.deepnote_big_number_comparison_value = Str(n_a)])
\* an input named "2 cool variable!"
b_input ==
    Block("", <<"i","n","p","u","t","-","t","e","x","t">>, Text(<< >>),
          Named(<<"2"," ","c","o","o","l"," ","v","a","r","i","a","b","l","e","!">>))
\* an input type that the file transport does not list
b_input_rating == Block("", <<"i","n","p","u","t","-","r","a","t","i","n","g">>, Text(<< >>), Named(n_x))
b_function ==
    Block("", t_notebook_function, Text(<< >>),
          [EmptyDict EXCEPT
              !.function_notebook_inputs =
                  [present |-> TRUE,
                   items |-> <<[flag |-> TRUE, variable_name |-> Str(n_x)],
                               [flag |-> FALSE, variable_name |-> Str(n_y)]>>],
              !.function_notebook_export_mappings =
                  [present |-> TRUE,
                   items |-> <<[flag |-> TRUE, variable_name |-> Str(n_df)]>>]])
b_markdown == Block("", <<"m","a","r","k","d","o","w","n">>, Text(<<<<"#"," ","h","i">>>>), NoMetadata)
b_no_id == [b_code_a EXCEPT !.has_id = FALSE]
b_markdown_no_id == [b_markdown EXCEPT !.has_id = FALSE]
b_null_content == Block("", t_code, Content("null", << >>), NoMetadata)
b_no_content == Block("", t_code, Content("missing", << >>), NoMetadata)
b_not_a_mapping == [b_code_a EXCEPT !.shape = "other"]
b_bad_metadata == Block("", t_sql, Text(<<sql_test>>), [EmptyDict EXCEPT !.kind = "other"])
\* SELECT {{
b_bad_template == Block("", t_sql, Text(<<<<"S","E","L","E","C","T"," ","{","{">>>>), NoMetadata)

BlockUniverse ==
    {b_code_a, b_code_b, b_sql, b_code_try, b_code_import, b_code_unparsable,
     b_code_magic, b_notype, b_button, b_big_number, b_input, b_input_rating,
     b_function, b_markdown, b_no_id, b_markdown_no_id, b_null_content,
     b_no_content, b_not_a_mapping, b_bad_metadata, b_bad_template}

WithIds(templates) == [k \in 1..Len(templates) |-> [templates[k] EXCEPT !.id = BlockIds[k]]]

Batches == UNION {{WithIds(s) : s \in [1..n -> BlockUniverse]} : n \in 0..MaxBlocks}

Container(state, bs) == [state |-> state, blocks |-> bs]

InitCommon ==
    /\ pc = "start"
    /\ blocks = << >>
    /\ i = 1
    /\ analysis = << >>
    /\ visitor = VariableVisitor
    /\ work = << >>
    /\ raised = ""
    /\ output = NoOutput
    /\ exit_status = << >>

Init ==
    /\ transport \in {"embedded", "file"}
    /\ \/ container \in {Container("ok", bs) : bs \in Batches}
       \/ container \in {Container(s, << >>) : s \in {"invalid_json"}}
       \/ /\ transport = "file"
          /\ container \in {Container(s, << >>) : s \in {"unreadable", "no_blocks"}}
    /\ InitCommon

Next ==
    \/ Start
    \/ AnalyzeBlock
    \/ BlockEscapes
    \/ BeginCode
    \/ WalkStep
    \/ EndCode
    \/ EndCodeEscapes
    \/ Finish
    \/ TotalFailure

Spec == Init /\ [][Next]_vars

(***************************************************************************)
(* The fragments of SpecCode: one code block whose source is up to MaxTop  *)
(* top-level statements drawn from TopStmts: the simple statements below,  *)
(* and defs and classes over the bodies below.                             *)
(***************************************************************************)
MaxTop == 2

s_assign == Assign(<<Store(n_x)>>, Constant)                      \* x = 1
s_assign_y == Assign(<<Store(n_y)>>, BinOp(Load(n_x), Constant))  \* y = x + 1
s_aug == AugAssign(Store(n_x), Constant)                          \* x += 1
s_ann == AnnAssign(Store(n_x), Load(n_str), Constant)             \* x: str = 1
s_walrus == Expr(NamedExpr(Store(n_x), Constant))                 \* (x := 1)
s_read == Expr(Load(n_x))                                         \* x
s_read_builtin == Expr(Load(n_str))                               \* str
s_attr == Expr(Attribute(Load(n_x), n_a, "Load"))                 \* x.a
s_attr_builtin == Expr(Attribute(Load(n_str), n_join, "Load"))    \* str.join
s_call == Expr(Call(Load(n_str), <<Load(n_y)>>))                  \* str(y)
s_attr_store == Assign(<<Attribute(Load(n_x), n_a, "Store")>>, Constant)  \* x.a = 1
s_assign_builtin == Assign(<<Store(n_str)>>, Constant)            \* str = 1
s_global == Global(<<n_x>>)                                       \* global x
s_return == Return(Load(n_x))                                     \* return x

SimpleStmts ==
    {s_assign, s_assign_y, s_aug, s_ann, s_walrus, s_read, s_read_builtin, s_attr,
     s_attr_builtin, s_call, s_attr_store, s_assign_builtin, s_global, stmt_b, stmt_try}

\* def g(): x  /  def g(): x = 1  /  def x(): pass  /  class C: x = 1
NestedDefs ==
    {FunctionDef(n_g, << >>, <<s_read>>, << >>),
     FunctionDef(n_g, << >>, <<s_assign>>, << >>),
     FunctionDef(n_x, << >>, <<Pass>>, << >>),
     ClassDef(n_C, << >>, <<s_assign>>, << >>)}

Bodies ==
    {<<s>> : s \in {s_assign, s_aug, s_ann, s_walrus, s_read, s_attr, s_attr_builtin,
                    s_read_builtin, s_return} \cup NestedDefs}
    \cup {<<s_global, s>> : s \in {s_assign, s_read, s_attr}}

ClassBodies == {<<s_assign>>, <<s_read>>, <<s_attr>>, <<FunctionDef(n_g, << >>, <<s_read>>, << >>)>>}

AsyncBodies == {<<s_return>>, <<s_global, s_assign>>}

Defs ==
    {FunctionDef(n_f, << >>, body, << >>) : body \in Bodies}
    \cup {ClassDef(n_C, << >>, body, << >>) : body \in ClassBodies}
    \cup {AsyncFunctionDef(n_f, << >>, body, << >>) : body \in AsyncBodies}

TopSimple == {s_assign, s_assign_y, s_read, s_attr_builtin, s_assign_builtin, s_global, stmt_try}

TopStmts == TopSimple \cup Defs

Fragments == UNION {[1..n -> TopStmts] : n \in 0..MaxTop}

CodeBlock(id, stmts) == Block(id, t_code, Code(stmts), NoMetadata)

InitCode ==
    /\ transport \in {"embedded", "file"}
    /\ container \in {Container("ok", <<CodeBlock("1", f)>>) : f \in Fragments}
    /\ InitCommon

NextCode ==
    \/ Start
    \/ BeginCode
    \/ WalkStep
    \/ EndCode
    \/ Finish

SpecCode == InitCode /\ [][NextCode]_vars

(***************************************************************************)
(* The fragments of SpecOrder: two code blocks, the second holding the     *)
(* top-level statements of the first in another order; the statements are  *)
(* simple ones, so that no function or class body occurs.                  *)
(***************************************************************************)
Permutation(f, p) == [k \in 1..Len(f) |-> f[p[k]]]

Orders(n) == {p \in [1..n -> 1..n] : \A j, k \in 1..n : p[j] = p[k] => j = k}

OrderedFragments == UNION {[1..n -> SimpleStmts] \X Orders(n) : n \in 0..MaxTop}

InitOrder ==
    /\ transport \in {"embedded", "file"}
    /\ container \in
          {Container("ok", <<CodeBlock("1", fp[1]), CodeBlock("2", Permutation(fp[1], fp[2]))>>) :
              fp \in OrderedFragments}
    /\ InitCommon

SpecOrder == InitOrder /\ [][NextCode]_vars

(***************************************************************************)
(* Properties of the batch entry point, checked under Spec.                *)
(***************************************************************************)
Done == pc = "done"
Batch == container.blocks
Indexes == 1..Len(Batch)

NoLists(r) ==
    r.definedVariables = << >> /\ r.usedVariables = << >> /\ r.importedModules = << >>

\* a block with every field of the contract in place: a mapping with an id, a
\* string content, and metadata that is absent, null or a mapping
WellFormed(b) ==
    /\ b.shape = "dict" /\ b.has_id
    /\ b.content.kind = "str"
    /\ b.metadata.kind # "other"

KnownType(type) ==
    \/ type \in {PyNone, t_code, t_sql, t_button, t_big_number, t_notebook_function}
    \/ startswith_input(type)

\* a code block whose source fails to parse
FailsToParse(b) ==
    /\ WellFormed(b) /\ b.type \in {PyNone, t_code}
    /\ ParseFails(comment_out_text(b.content.lines))

\* the results a batch holding b alone can end with (the order of
\* importedModules is the set's iteration order)
AloneResults(t, b) ==
    LET alone == IF t = "file" THEN comment_out_block(b) ELSE b
        o == Dispatch(t, alone)
        v == get_defined_used_variables(ParsedLines(t, alone))
    IN  CASE o.kind = "result" -> {o.result}
          [] o.kind = "walk" /\ b.has_id ->
                {Result(b.id, sorted(v.global_vars), sorted(v.used_global_vars), imported) :
                    imported \in ListsOf(v.imported_modules)}
          [] OTHER -> {}

\* C1: a batch of well-formed blocks of any types ends with a results array of
\* as many entries as there are blocks, entry k carrying the id of block k, and
\* a block of a type that is not recognized contributes an entry with empty
\* lists and no error.
C1_OneResultPerBlock ==
    (Done /\ container.state = "ok" /\ \A k \in Indexes : WellFormed(Batch[k]))
    => /\ output.kind = "results"
       /\ Len(output.results) = Len(Batch)
       /\ \A k \in Indexes :
             /\ output.results[k].id = Batch[k].id
             /\ ~KnownType(Batch[k].type) => output.results[k] = EmptyResult(Batch[k].id)

\* C2: when code block k of a batch fails to parse and every other block is
\* well-formed and analyses without error alone, the batch ends with one result
\* per block, result k has empty lists and the error type SyntaxError, and every
\* other result is one the block gives alone and carries no error.
C2_FaultIsolation ==
    \A k \in Indexes :
        (/\ Done /\ container.state = "ok"
         /\ FailsToParse(Batch[k])
         /\ \A j \in Indexes \ {k} :
               /\ WellFormed(Batch[j])
               /\ \A r \in AloneResults(transport, Batch[j]) : ~r.error.present)
        => /\ output.kind = "results"
           /\ Len(output.results) = Len(Batch)
           /\ output.results[k] = ErrorResult(Batch[k].id, "SyntaxError")
           /\ \A j \in Indexes \ {k} :
                 /\ output.results[j] \in AloneResults(transport, Batch[j])
                 /\ ~output.results[j].error.present

\* a block of a handled type whose processing raises: not a mapping, or a code
\* or sql block without id, with null content, with metadata that is no
\* mapping (sql), or with source that fails to parse
Faulty(b) ==
    \/ b.shape # "dict"
    \/ /\ b.type \in {PyNone, t_code, t_sql}
       /\ \/ ~b.has_id
          \/ b.content.kind = "null"
          \/ b.type = t_sql /\ b.metadata.kind = "other"
          \/ FailsToParse(b)

\* C3: no block makes the batch end with the errorMessage object, and a batch
\* of one block whose processing raises ends with exactly one result, with
\* empty lists and an error.
C3_NoExceptionEscapes ==
    (Done /\ container.state = "ok")
    => /\ output.kind = "results"
       /\ (Len(Batch) = 1 /\ Faulty(Batch[1]))
          => /\ Len(output.results) = 1
             /\ NoLists(output.results[1])
             /\ output.results[1].error.present

\* C4: nothing is emitted before the run ends; a run ends with either the
\* results of all the blocks and no message, or the errorMessage object (class
\* name of the exception) and no results; with the file transport the status
\* is 1 exactly when the errorMessage object was written and 0 whenever a
\* results array was, per-block errors included.
C4_OneWellFormedOutput ==
    /\ ~Done => output = NoOutput /\ exit_status = << >>
    /\ Done =>
          /\ output.kind \in {"results", "errorMessage"}
          /\ output.kind = "results" =>
                /\ output.results = analysis /\ i > Len(blocks)
                /\ output.message = ""
          /\ output.kind = "errorMessage" =>
                /\ output.results = << >>
                /\ output.message = raised /\ raised # ""
          /\ transport = "file" =>
                /\ exit_status \in {<<0>>, <<1>>}
                /\ exit_status = <<1>> <=> output.kind = "errorMessage"
                /\ output.kind = "results" => exit_status = <<0>>
          /\ transport = "embedded" => exit_status = << >>

\* C4 happens: the file transport wrote a results array that carries a
\* per-block error, with status 0
C4_Witness ==
    /\ Done /\ transport = "file"
    /\ output.kind = "results"
    /\ \E k \in 1..Len(output.results) : output.results[k].error.present
    /\ exit_status = <<0>>

(***************************************************************************)
(* What a fragment says, read off its tree: where names are bound and      *)
(* read, counting the def and class bodies a node lies in.                 *)
(***************************************************************************)
IsScope(node) == node.kind \in {"FunctionDef", "AsyncFunctionDef", "ClassDef"}

\* the node and its descendants, each with the number of def and class bodies
\* around it; the header expressions of a def or class belong to the scope the
\* definition stands in
RECURSIVE Occurrences(_, _)
Occurrences(node, depth) ==
    {[node |-> node, depth |-> depth]}
    \cup UNION {Occurrences(c, depth) : c \in Range(node.pre) \cup Range(node.post)}
    \cup UNION {Occurrences(c, IF IsScope(node) THEN depth + 1 ELSE depth) :
                   c \in Range(node.kids)}

OccurrencesIn(stmts) == UNION {Occurrences(stmts[k], 0) : k \in 1..Len(stmts)}

\* the node binds its id: an assignment target of any of the four forms, or a
\* def or class
Binds(node) == (node.kind = "Name" /\ node.ctx = "Store") \/ IsScope(node)
Reads(node) == node.kind = "Name" /\ node.ctx = "Load"

ModuleBound(stmts) == {o.node.id : o \in {q \in OccurrencesIn(stmts) : q.depth = 0 /\ Binds(q.node)}}
NestedBound(stmts) == {o.node.id : o \in {q \in OccurrencesIn(stmts) : q.depth > 0 /\ Binds(q.node)}}
ModuleReads(stmts) == {o.node.id : o \in {q \in OccurrencesIn(stmts) : q.depth = 0 /\ Reads(q.node)}}
NestedReads(stmts) == {o.node.id : o \in {q \in OccurrencesIn(stmts) : q.depth > 0 /\ Reads(q.node)}}
NestedGlobals(stmts) ==
    UNION {Range(o.node.names) :
              o \in {q \in OccurrencesIn(stmts) : q.depth > 0 /\ q.node.kind = "Global"}}

FragmentOf(block) == StmtsOf(block.content.lines)
Fragment == FragmentOf(Batch[1])
Analysed == Done /\ output.kind = "results" /\ Len(output.results) = Len(Batch)
defined(k) == Range(output.results[k].definedVariables)
used(k) == Range(output.results[k].usedVariables)

\* def f(): return x
def_f_return_x == FunctionDef(n_f, << >>, <<s_return>>, << >>)
\* def f(): x = 1
def_f_assign == FunctionDef(n_f, << >>, <<s_assign>>, << >>)
\* def f(): global x; x = 1
def_f_global_assign == FunctionDef(n_f, << >>, <<s_global, s_assign>>, << >>)

(***************************************************************************)
(* Properties of the code analyzer, checked under SpecCode.                *)
(***************************************************************************)
\* C5: a non-builtin name bound at module scope anywhere in the fragment and
\* read inside a def or class body is in usedVariables, whether the binding
\* stands before or after the body; def f(): return x followed by x = 1 gives
\* usedVariables [x].
C5_TwoPassReads ==
    Analysed =>
       /\ (ModuleBound(Fragment) \cap NestedReads(Fragment)) \ builtins \subseteq used(1)
       /\ Fragment = <<def_f_return_x, s_assign>> => output.results[1].usedVariables = <<n_x>>

\* C6: no builtin name is in usedVariables, read as a bare name or as the base
\* of an attribute access, at module scope or inside a function.
C6_BuiltinsNeverUsed ==
    Analysed => used(1) \cap builtins = {}

\* C7: the block try: raise ValueError('error') / except Exception: pass has
\* no defined, used or imported names.
C7_ExceptionClassesNotUsed ==
    (Analysed /\ Fragment = <<stmt_try>>) => output.results = <<EmptyResult(Batch[1].id)>>

\* C8: every name in definedVariables is bound at module scope, so a name
\* bound only inside def or class bodies is not in it; def f(): x = 1 gives
\* definedVariables [f] and usedVariables [].
C8_NestedBindingsStayLocal ==
    Analysed =>
       /\ defined(1) \subseteq ModuleBound(Fragment)
       /\ (NestedBound(Fragment) \ ModuleBound(Fragment)) \cap defined(1) = {}
       /\ Fragment = <<def_f_assign>> =>
             output.results[1] = Result(Batch[1].id, <<n_f>>, << >>, << >>)

\* C8 happens: a fragment whose only binding of x is inside a def has been
\* analysed, and definedVariables holds the def's name alone
C8_Witness ==
    /\ Analysed
    /\ n_x \in NestedBound(Fragment) \ ModuleBound(Fragment)
    /\ Fragment = <<def_f_assign>>
    /\ output.results[1].definedVariables = <<n_f>>

\* C9: a name declared global inside a def or class body and not bound at
\* module scope is not in definedVariables, even when that body assigns it;
\* def f(): global x; x = 1 gives definedVariables [f] and usedVariables [].
C9_GlobalAsymmetry ==
    Analysed =>
       /\ (NestedGlobals(Fragment) \ ModuleBound(Fragment)) \cap defined(1) = {}
       /\ Fragment = <<def_f_global_assign>> =>
             output.results[1] = Result(Batch[1].id, <<n_f>>, << >>, << >>)

\* C9 happens: def f(): global x; x = 1 has been analysed alone
C9_Witness ==
    /\ Analysed
    /\ Fragment = <<def_f_global_assign>>
    /\ n_x \in (NestedGlobals(Fragment) \cap NestedBound(Fragment)) \ ModuleBound(Fragment)
    /\ n_x \notin defined(1)

(***************************************************************************)
(* Properties of module-scope classification, checked under SpecOrder.     *)
(***************************************************************************)
\* C10: a fragment without def or class bodies and any permutation of its
\* top-level statements have the same definedVariables and the same
\* usedVariables; every name bound at module scope is in definedVariables and
\* every non-builtin name read at module scope is in usedVariables;
\* y = x + 1 then x = 1 gives [x, y] and [x]; b = 1 + a gives [b] and [a].
C10_BindingPresence ==
    (Analysed /\ Len(Batch) = 2) =>
       /\ output.results[1].definedVariables = output.results[2].definedVariables
       /\ output.results[1].usedVariables = output.results[2].usedVariables
       /\ ModuleBound(Fragment) \subseteq defined(1)
       /\ ModuleReads(Fragment) \ builtins \subseteq used(1)
       /\ Fragment = <<s_assign_y, s_assign>> =>
             /\ output.results[1].definedVariables = <<n_x, n_y>>
             /\ output.results[1].usedVariables = <<n_x>>
       /\ Fragment = <<stmt_b>> =>
             /\ output.results[1].definedVariables = <<n_b>>
             /\ output.results[1].usedVariables = <<n_a>>

\* C10 happens: y = x + 1; x = 1 and x = 1; y = x + 1 have both been analysed
C10_Witness ==
    /\ Analysed /\ Len(Batch) = 2
    /\ Fragment = <<s_assign_y, s_assign>>
    /\ FragmentOf(Batch[2]) = <<s_assign, s_assign_y>>
    /\ output.results[2].usedVariables = <<n_x>>

(***************************************************************************)
(* The fragments of SpecImport: one code block of up to MaxTop statements  *)
(* among import statements of both forms, with and without alias, at       *)
(* module level and inside a def, and reads of the imported names.         *)
(***************************************************************************)
i_plain == Import(<<alias(n_pandas, << >>)>>)                     \* import pandas
i_two == Import(<<alias(n_pandas, <<n_pd>>), alias(n_x, << >>)>>)    \* import pandas as pd, x
i_from == ImportFrom(<<alias(n_DataFrame, << >>)>>)               \* from pandas import DataFrame
i_from_as == ImportFrom(<<alias(n_DataFrame, <<n_df>>)>>)         \* from pandas import DataFrame as df
s_read_pd == Expr(Load(n_pd))                                     \* pd
def_f_import == FunctionDef(n_f, << >>, <<stmt_import>>, << >>)   \* def f(): import pandas as pd
def_f_read_pd == FunctionDef(n_f, << >>, <<s_read_pd>>, << >>)    \* def f(): pd

ImportStmts ==
    {i_plain, stmt_import, i_two, i_from, i_from_as, stmt_df, s_read_pd, def_f_import,
     def_f_read_pd, s_assign}

InitImport ==
    /\ transport \in {"embedded", "file"}
    /\ container \in {Container("ok", <<CodeBlock("1", f)>>) :
                         f \in UNION {[1..n -> ImportStmts] : n \in 0..MaxTop}}
    /\ InitCommon

SpecImport == InitImport /\ [][NextCode]_vars

(***************************************************************************)
(* Properties of import statements, checked under SpecImport.              *)
(***************************************************************************)
\* the local name an imported item is bound to: the alias if there is one,
\* else the imported name
LocalName(item) == IF item.names = << >> THEN item.id ELSE item.names[1]

IsImport(node) == node.kind \in {"Import", "ImportFrom"}

ImportedNames(stmts) ==
    UNION {{LocalName(item) : item \in Range(o.node.kids)} :
              o \in {q \in OccurrencesIn(stmts) : IsImport(q.node)}}

\* the visit of an import statement: every item's local name joins
\* imported_modules, and nothing else of the visitor changes
ImportStep ==
    (pc = "walk" /\ work # << >> /\ Head(work).op = "visit" /\ IsImport(Head(work).node))
    => /\ visitor'.imported_modules =
             visitor.imported_modules
                \cup {LocalName(item) : item \in Range(Head(work).node.kids)}
       /\ visitor'.global_vars = visitor.global_vars
       /\ visitor'.used_global_vars = visitor.used_global_vars
       /\ visitor'.scope_stack = visitor.scope_stack
       /\ visitor'.function_globals = visitor.function_globals
       /\ work' = Tail(work)

\* the result: importedModules holds each local name once, in any scope; the
\* imports define nothing and a name is used only where it is read
ImportResult ==
    Analysed =>
       /\ Range(output.results[1].importedModules) = ImportedNames(Fragment)
       /\ Len(output.results[1].importedModules) = Cardinality(ImportedNames(Fragment))
       /\ defined(1) \subseteq ModuleBound(Fragment)
       /\ used(1) \subseteq ModuleReads(Fragment) \cup NestedReads(Fragment)

\* C11: visiting a plain or from-import statement adds the local name of every
\* imported item (alias if present, else the imported name) to
\* imported_modules and leaves global_vars and used_global_vars unchanged; in
\* the result importedModules is exactly those names, and an imported name is
\* in usedVariables only when it is read.
C11_ImportRule == [][ImportStep]_vars /\ []ImportResult

\* C11 happens: import pandas as pd, x and from pandas import DataFrame as df
\* have been analysed
C11_Witness ==
    /\ Analysed
    /\ Fragment = <<i_two, i_from_as>>
    /\ Range(output.results[1].importedModules) = {n_pd, n_x, n_df}
    /\ NoLists([output.results[1] EXCEPT !.importedModules = << >>])

(***************************************************************************)
(* The queries of SpecSql: one sql block whose text is up to MaxSqlLines   *)
(* lines among the lines below, or is the test's query, with and without  *)
(* a configured variable name.                                             *)
(***************************************************************************)
MaxSqlLines == 2

\* from orders JOIN users
q_join ==
    <<"f","r","o","m"," ","o","r","d","e","r","s"," ","J","O","I","N"," ","u","s","e","r","s">>

\* {{b}}{{ a }}{{b}} FROM a
q_twice ==
    <<"{","{","b","}","}","{","{"," ","a"," ","}","}","{","{","b","}","}"," ","F","R","O","M",
      " ","a">>

\* INTO t FROM select
q_into ==
    <<"I","N","T","O"," ","t"," ","F","R","O","M"," ","s","e","l","e","c","t">>

\* {% for i in c %}{{ i }}
q_for ==
    <<"{","%"," ","f","o","r"," ","i"," ","i","n"," ","c"," ","%","}","{","{"," ","i"," ","}",
      "}">>

\* {% endfor %}
q_endfor ==
    <<"{","%"," ","e","n","d","f","o","r"," ","%","}">>

\* {{ ids | inclause }}
q_filter ==
    <<"{","{"," ","i","d","s"," ","|"," ","i","n","c","l","a","u","s","e"," ","}","}">>

SqlLines == {q_join, q_twice, q_into, q_for, q_endfor, q_filter}

SqlTexts == {<<sql_test>>} \cup UNION {[1..n -> SqlLines] : n \in 1..MaxSqlLines}

InitSql ==
    /\ transport \in {"embedded", "file"}
    /\ container \in {Container("ok", <<Block("1", t_sql, Text(q), m)>>) :
                         q \in SqlTexts, m \in {NoMetadata, Named(n_df)}}
    /\ InitCommon

\* the steps of a batch whose blocks need no tree walk
NextBlock ==
    \/ Start
    \/ AnalyzeBlock
    \/ Finish

SpecSql == InitSql /\ [][NextBlock]_vars

(***************************************************************************)
(* Properties of sql blocks, checked under SpecSql.                        *)
(***************************************************************************)
\* ascending with no two equal neighbours: sorted and duplicate-free
StrictlyAscending(list) == \A k \in 1..(Len(list) - 1) : StrLess(list[k], list[k + 1])

QueryText == JoinLines(Batch[1].content.lines)

\* step 1 as the transport computes it, step 2
TemplateVariables ==
    IF transport = "embedded" THEN FindJinjaNames(QueryText)
    ELSE find_undeclared_variables(QueryText).vars
RelationNames == sql_variables(QueryText)

n_someVariable == <<"s","o","m","e","V","a","r","i","a","b","l","e">>
n_users == <<"u","s","e","r","s">>

MaxNameLen == 3

NameChars == {"2", "a", "_", "!", " ", "\t"}

\* 2 cool variable!
name_2_cool_variable ==
    <<"2"," ","c","o","o","l"," ","v","a","r","i","a","b","l","e","!">>

name_cool_variable ==
    <<"c","o","o","l","_","v","a","r","i","a","b","l","e">>

name_input_1 == <<"i","n","p","u","t","_","1">>

Names == {name_2_cool_variable} \cup UNION {[1..n -> NameChars] : n \in 0..MaxNameLen}

InitSanitize ==
    /\ transport \in {"embedded", "file"}
    /\ container \in Names
    /\ pc = "call"
    /\ blocks = << >>
    /\ i = 1
    /\ analysis = << >>
    /\ visitor = VariableVisitor
    /\ work = << >>
    /\ raised = ""
    /\ output = NoOutput
    /\ exit_status = << >>

Sanitize ==
    /\ pc = "call"
    /\ output' = sanitize_python_variable_name(container)
    /\ pc' = "return"
    /\ UNCHANGED <<transport, container, blocks, i, analysis, visitor, work, raised,
                   exit_status>>

SanitizeAgain ==
    /\ pc = "return"
    /\ analysis' = sanitize_python_variable_name(output)
    /\ pc' = "again"
    /\ UNCHANGED <<transport, container, blocks, i, output, visitor, work, raised,
                   exit_status>>

NextSanitize ==
    \/ Sanitize
    \/ SanitizeAgain

SpecSanitize == InitSanitize /\ [][NextSanitize]_vars

(***************************************************************************)
(* Properties of the sanitizer, checked under SpecSanitize.                *)
(***************************************************************************)
Returned == pc \in {"return", "again"}

\* the characters that are neither letters, digits, white space nor "_"
Punctuation == {c \in DOMAIN CodePoint : ~IsWord(c) /\ ~IsSpace(c)}

DigitsAndPunctuation(s) == s # << >> /\ \A k \in 1..Len(s) : s[k] \in Digits \cup Punctuation

\* C13: the sanitizer maps "2 cool variable!" to "cool_variable", the empty
\* string to "input_1", and every string made only of digits and punctuation
\* to "input_1".
C13_SanitizerBoundaries ==
    Returned =>
       /\ container = name_2_cool_variable => output = name_cool_variable
       /\ container = << >> => output = name_input_1
       /\ DigitsAndPunctuation(container) => output = name_input_1

ValidIdentifier(s) ==
    /\ s # << >>
    /\ \A k \in 1..Len(s) : IsWord(s[k])
    /\ IsLetter(s[1]) \/ s[1] = "_"

\* C14: for every label the sanitizer returns a valid bare identifier (not
\* empty, every character in [A-Za-z0-9_], the first one a letter or "_"),
\* and sanitizing that result returns it unchanged.
C14_ValidIdentifier ==
    /\ Returned => ValidIdentifier(output)
    /\ pc = "again" => analysis = output

C14_Witness ==
    /\ pc = "again"
    /\ container = <<"2", " ", "a">>
    /\ output = <<"_", "a">>
    /\ analysis = <<"_", "a">>

(***************************************************************************)
(* SpecMeta: one block whose result comes from its metadata (sql, button,  *)
(* big-number, input-*, notebook-function), on both transports.  The       *)
(* metadata is missing, null or a mapping; a field of it is absent, null,  *)
(* the empty string or a name; the inputs and outputs of a function hold   *)
(* up to MaxItems entries, with repeated names and names that sanitize to  *)
(* the same identifier.                                                    *)
(***************************************************************************)
MaxItems == 2

NullMetadata == [EmptyDict EXCEPT !.kind = "null"]

t_input_text == <<"i","n","p","u","t","-","t","e","x","t">>
t_input_rating == <<"i","n","p","u","t","-","r","a","t","i","n","g">>

\* a b   /   a_b
name_a_space_b == <<"a"," ","b">>
name_a_b == <<"a","_","b">>

NameFields == {Absent, Null, Str(<< >>), Str(n_b), Str(name_2_cool_variable)}

NameMetadata ==
    {NoMetadata, NullMetadata}
    \cup {[EmptyDict EXCEPT !.deepnote_variable_name = n] : n \in NameFields}

BigNumberFields == {Absent, Null, Str(<< >>), Str(n_a), Str(n_b)}

BigNumberMetadata ==
    {NoMetadata, NullMetadata}
    \cup {[EmptyDict EXCEPT !.deepnote_big_number_value = v,
                            !.deepnote_big_number_comparison_value = c] :
             v \in BigNumberFields, c \in BigNumberFields}

\* flag: custom_value is None (an input), enabled is True (an output)
Item(flag, variable_name) == [flag |-> flag, variable_name |-> variable_name]

Items ==
    {Item(TRUE, Str(n_x)), Item(TRUE, Str(name_a_space_b)), Item(TRUE, Str(name_a_b)),
     Item(FALSE, Str(n_y)), Item(TRUE, Absent)}

ItemLists ==
    {NoList} \cup {[present |-> TRUE, items |-> l] :
                      l \in UNION {[1..n -> Items] : n \in 0..MaxItems}}

FunctionMetadata ==
    {NoMetadata, NullMetadata}
    \cup {[EmptyDict EXCEPT !.function_notebook_inputs = ins,
                            !.function_notebook_export_mappings = outs] :
             ins \in ItemLists, outs \in ItemLists}

MetaBlocks ==
    {Block("1", t_sql, Text(<<sql_test>>), m) : m \in NameMetadata}
    \cup {Block("1", type, Text(<< >>), m) :
             type \in {t_button, t_input_text, t_input_rating}, m \in NameMetadata}
    \cup {Block("1", t_big_number, Text(<< >>), m) : m \in BigNumberMetadata}
    \cup {Block("1", t_notebook_function, Text(<< >>), m) : m \in FunctionMetadata}

InitMeta ==
    /\ transport \in {"embedded", "file"}
    /\ container \in {Container("ok", <<b>>) : b \in MetaBlocks}
    /\ InitCommon

SpecMeta == InitMeta /\ [][NextBlock]_vars

(***************************************************************************)
(* Properties of the metadata-driven block types, checked under SpecMeta.  *)
(***************************************************************************)
TheType == Batch[1].type
TheMetadata == Batch[1].metadata
OneResult == Done /\ Len(output.results) = 1
TheResult == output.results[1]

\* the field configures a string
Configured(val) == val.kind = "str"

\* C15: in every result, of every block type, definedVariables and
\* usedVariables hold no entry twice and are in ascending order (two inputs of
\* a notebook function bound to one name, or to names that sanitize to one
\* identifier, give that name once).
C15_ListsSortedDeduplicated ==
    Done => \A k \in 1..Len(output.results) :
               /\ StrictlyAscending(output.results[k].definedVariables)
               /\ StrictlyAscending(output.results[k].usedVariables)

\* (The empty string as a name may count as configured or not.)
\* C17: a button block, and a sql block in its definedVariables, defines [v]
\* exactly when the metadata configures the variable name as the string v,
\* taken as it is, and [] otherwise (no metadata, null metadata, no field, null
\* field); a button uses and imports nothing; there is no error field and no
\* entry that is not a string.
C17_ConfiguredNameVerbatim ==
    (Done /\ TheType \in {t_button, t_sql}) =>
       /\ OneResult
       /\ ~TheResult.error.present
       /\ TheResult.definedVariables \in
             IF Truthy(TheMetadata.deepnote_variable_name)
             THEN {<<TheMetadata.deepnote_variable_name.s>>}
             ELSE IF Configured(TheMetadata.deepnote_variable_name)
             THEN {<< >>, <<TheMetadata.deepnote_variable_name.s>>}
             ELSE {<< >>}
       /\ TheType = t_button =>
             TheResult.usedVariables = << >> /\ TheResult.importedModules = << >>

\* the names in the two fields of a big-number block that pass the test
BigNumberFieldsHeld(Test(_)) ==
    {v.s : v \in {w \in {TheMetadata.deepnote_big_number_value,
                          TheMetadata.deepnote_big_number_comparison_value} : Test(w)}}

\* (A field holding the empty string may count as present or not.)
\* C18: a big-number block defines and imports nothing and uses the sorted set
\* of the value field and the comparison-value field that the metadata holds:
\* both when they differ, one entry when they name the same variable, [] and no
\* error when there is neither or no metadata.
C18_BigNumberUsedVariables ==
    (Done /\ TheType = t_big_number) =>
       /\ OneResult
       /\ ~TheResult.error.present
       /\ TheResult.definedVariables = << >>
       /\ TheResult.importedModules = << >>
       /\ \/ TheResult.usedVariables = sorted(BigNumberFieldsHeld(Configured))
          \/ TheResult.usedVariables = sorted(BigNumberFieldsHeld(Truthy))

\* C19: a block whose type begins with input- defines [sanitize(n)] when the
\* metadata configures a variable name n that is not null, the empty string
\* included, and [] when there is no name or a null one; it uses and imports
\* nothing.
C19_InputDefinedVariables ==
    (Done /\ startswith_input(TheType)) =>
       /\ OneResult
       /\ ~TheResult.error.present
       /\ TheResult.definedVariables =
             IF Configured(TheMetadata.deepnote_variable_name)
             THEN <<sanitize_python_variable_name(TheMetadata.deepnote_variable_name.s)>>
             ELSE << >>
       /\ TheResult.usedVariables = << >>
       /\ TheResult.importedModules = << >>

\* the sanitized names of the entries that pass the flag test (an output is
\* enabled, an input has no literal value) and are bound to a variable name
BoundNames(list) ==
    {sanitize_python_variable_name(list.items[k].variable_name.s) :
        k \in {j \in 1..Len(list.items) :
                  list.items[j].flag /\ Truthy(list.items[j].variable_name)}}

\* C20: a notebook-function block defines the sanitized names of exactly the
\* outputs that are enabled and bound to a variable name, uses the sanitized
\* names of exactly the inputs that have no literal value and are bound to a
\* variable name, and imports nothing, on both transports.
C20_FunctionVariables ==
    (Done /\ TheType = t_notebook_function) =>
       /\ OneResult
       /\ ~TheResult.error.present
       /\ Range(TheResult.definedVariables) =
             BoundNames(TheMetadata.function_notebook_export_mappings)
       /\ Range(TheResult.usedVariables) = BoundNames(TheMetadata.function_notebook_inputs)
       /\ TheResult.importedModules = << >>

(***************************************************************************)
(* The result as a function of the block, checked under SpecImport.        *)
(***************************************************************************)
\* C16: the result of a block is a function of that block alone: in any batch
\* position, after any other blocks, and in any later invocation it is the one
\* result the block has when analysed alone, since no analyzer state survives
\* from one block to the next.
C16_FunctionOfBlock ==
    Analysed => \A k \in Indexes :
                   /\ output.results[k] \in AloneResults(transport, Batch[k])
                   /\ Cardinality(AloneResults(transport, Batch[k])) = 1

(***************************************************************************)
(* SpecScope: one code block of up to MaxTop statements among global       *)
(* declarations at module level, in defs and in class bodies, reads in the *)
(* same body, in nested and in sibling defs and classes, and reads in the  *)
(* header of a def or class (base, decorator, default value).              *)
(***************************************************************************)
n_D == <<"D">>
s_assign_y_x == Assign(<<Store(n_y)>>, Load(n_x))                 \* y = x
s_return_attr == Return(Attribute(Load(n_x), n_a, "Load"))        \* return x.a

\* def f(): global x
def_f_global == FunctionDef(n_f, << >>, <<s_global>>, << >>)
\* def f(): global x; return x
def_f_global_return == FunctionDef(n_f, << >>, <<s_global, s_return>>, << >>)
\* def f(): global x; return x.a
def_f_global_attr == FunctionDef(n_f, << >>, <<s_global, s_return_attr>>, << >>)
\* def f(): return x; global x
def_f_return_global == FunctionDef(n_f, << >>, <<s_return, s_global>>, << >>)
\* async def f(): global x; return x
def_f_async_global_return == AsyncFunctionDef(n_f, << >>, <<s_global, s_return>>, << >>)
\* def g(): return x
def_g_return_x == FunctionDef(n_g, << >>, <<s_return>>, << >>)
\* def f(): return x.a
def_f_return_attr == FunctionDef(n_f, << >>, <<s_return_attr>>, << >>)
\* def f(): global x; def g(): return x
def_f_global_nested_def == FunctionDef(n_f, << >>, <<s_global, def_g_return_x>>, << >>)
\* class D: y = x
class_D_reads == ClassDef(n_D, << >>, <<s_assign_y_x>>, << >>)
\* def f(): global x; class D: y = x
def_f_global_nested_class == FunctionDef(n_f, << >>, <<s_global, class_D_reads>>, << >>)
\* class C: global x
class_C_global == ClassDef(n_C, << >>, <<s_global>>, << >>)
\* class C: global x; y = x
class_C_global_reads == ClassDef(n_C, << >>, <<s_global, s_assign_y_x>>, << >>)
\* class C: global x; def g(): return x
class_C_global_method == ClassDef(n_C, << >>, <<s_global, def_g_return_x>>, << >>)
\* class C(x): pass
class_C_base == ClassDef(n_C, <<Load(n_x)>>, <<Pass>>, << >>)
\* class C(C): pass
class_C_self == ClassDef(n_C, <<Load(n_C)>>, <<Pass>>, << >>)
\* @x def f(): pass
def_f_decorated == FunctionDef(n_f, << >>, <<Pass>>, <<Load(n_x)>>)
\* def f(a=x): pass
def_f_default == FunctionDef(n_f, <<Inner("arguments", <<Load(n_x)>>)>>, <<Pass>>, << >>)

ScopeStmts ==
    {s_assign, s_read, s_global, def_f_return_x, def_f_global, def_f_global_return,
     def_f_global_attr, def_f_return_global, def_f_async_global_return, def_g_return_x,
     def_f_return_attr, def_f_global_nested_def, class_D_reads, def_f_global_nested_class,
     class_C_global, class_C_global_reads, class_C_global_method, class_C_base,
     class_C_self, def_f_decorated, def_f_default}

ScopeFragments == UNION {[1..n -> ScopeStmts] : n \in 0..MaxTop}

InitScope ==
    /\ transport \in {"embedded", "file"}
    /\ container \in {Container("ok", <<CodeBlock("1", f)>>) : f \in ScopeFragments}
    /\ InitCommon

SpecScope == InitScope /\ [][NextCode]_vars

(***************************************************************************)
(* What a fragment says about frames, read off its tree.                   *)
(***************************************************************************)
IsFunction(node) == node.kind \in {"FunctionDef", "AsyncFunctionDef"}

\* every def and class of the fragment, at any depth
ScopesIn(stmts) == {o.node : o \in {q \in OccurrencesIn(stmts) : IsScope(q.node)}}

\* every name a global statement of the fragment names, at any depth
AllGlobals(stmts) ==
    UNION {Range(o.node.names) : o \in {q \in OccurrencesIn(stmts) : q.node.kind = "Global"}}

\* the node and what lies under it in the same frame: the body of a nested
\* def or class is another frame, its header expressions are not
RECURSIVE SameFrame(_)
SameFrame(node) ==
    {node} \cup UNION {SameFrame(c) :
                          c \in IF IsScope(node) THEN Range(node.pre) \cup Range(node.post)
                                ELSE Range(Children(node))}

\* the same, leaving nested defs and classes out altogether
RECURSIVE OwnNodes(_)
OwnNodes(node) ==
    IF IsScope(node) THEN {}
    ELSE {node} \cup UNION {OwnNodes(c) : c \in Range(Children(node))}

\* the frame of the body of a def or class
FrameOf(scope) == UNION {SameFrame(scope.kids[k]) : k \in 1..Len(scope.kids)}

\* x is declared global and read in the body of one and the same def or class
DeclaredWhereRead(stmts, x) ==
    \E scope \in ScopesIn(stmts) :
        /\ \E n \in FrameOf(scope) : n.kind = "Global" /\ x \in Range(n.names)
        /\ \E n \in FrameOf(scope) : Reads(n) /\ n.id = x

\* C21: a global declaration counts only for reads in the body of the def or
\* class that holds it: once that body is left, and in a nested def, a sibling
\* def or another class body, the name is not redeclared global, so a read of
\* it there is not used on account of the declaration; the same for a
\* declaration in a class body or at module level.
C21_GlobalIsPerFrame ==
    Analysed => \A x \in used(1) :
                   \/ x \in ModuleReads(Fragment)
                   \/ x \in ModuleBound(Fragment)
                   \/ DeclaredWhereRead(Fragment, x)

\* the names a def declares global in a statement of its body and reads in a
\* later statement of its own body
ReadAfterGlobal(scope) ==
    UNION {Range(scope.kids[j].names) \cap
              UNION {{n.id : n \in {m \in OwnNodes(scope.kids[k]) : Reads(m)}} :
                        k \in (j + 1)..Len(scope.kids)} :
           j \in {g \in 1..Len(scope.kids) : scope.kids[g].kind = "Global"}}

ReadAfterGlobalIn(stmts) ==
    UNION {ReadAfterGlobal(scope) : scope \in {s \in ScopesIn(stmts) : IsFunction(s)}}

\* C22: in a def that declares global x, every read of x in the def's own body
\* after the declaration, as a bare name or as the base of an attribute access,
\* is in usedVariables, also when the fragment binds x nowhere at module scope.
C22_ReadAfterGlobalIsUsed ==
    Analysed =>
       /\ ReadAfterGlobalIn(Fragment) \ builtins \subseteq used(1)
       /\ Fragment = <<def_f_global_return>> =>
             output.results[1] = Result(Batch[1].id, <<n_f>>, <<n_x>>, << >>)

\* C22 happens: def f(): global x; return x.a has been analysed alone, x is
\* bound nowhere at module scope, and it is used
C22_Witness ==
    /\ Analysed
    /\ Fragment = <<def_f_global_attr>>
    /\ n_x \in ReadAfterGlobalIn(Fragment) \ ModuleBound(Fragment)
    /\ output.results[1].usedVariables = <<n_x>>

\* C26: a name read only inside def or class bodies is in usedVariables only
\* if it is declared global or bound at module scope somewhere in the
\* fragment: a name the fragment neither declares global nor binds at module
\* level is never used; def f(): return x gives usedVariables [].
C26_NestedReadsNeedBinding ==
    Analysed =>
       /\ \A x \in used(1) :
             \/ x \in ModuleReads(Fragment)
             \/ x \in ModuleBound(Fragment)
             \/ x \in AllGlobals(Fragment)
       /\ Fragment = <<def_f_return_x>> =>
             output.results[1] = Result(Batch[1].id, <<n_f>>, << >>, << >>)

\* C26 happens: x is read in a def body as an attribute base, the fragment
\* binds and declares it nowhere, and it is not used
C26_Witness ==
    /\ Analysed
    /\ Fragment = <<def_f_return_attr>>
    /\ n_x \in NestedReads(Fragment) \ (ModuleBound(Fragment) \cup AllGlobals(Fragment))
    /\ output.results[1].usedVariables = << >>

\* the node and its descendants, each with the depth of scope_stack when it
\* is visited: the header expressions of a def or class are visited with the
\* definition's scope entered
RECURSIVE Visited(_, _)
Visited(node, depth) ==
    {[node |-> node, depth |-> depth]}
    \cup UNION {Visited(c, IF IsScope(node) THEN depth + 1 ELSE depth) :
                   c \in Range(Children(node))}

VisitedReads(stmts, Depths) ==
    {o.node.id : o \in {q \in UNION {Visited(stmts[k], 0) : k \in 1..Len(stmts)} :
                           q.depth \in Depths /\ Reads(q.node)}}

\* x is read with a scope entered in a statement at or after whose beginning
\* the fragment has bound x at module level
ReadOnceBound(stmts, x) ==
    \E k \in 1..Len(stmts) :
        /\ x \in VisitedReads(<<stmts[k]>>, 1..Len(stmts) + 2)
        /\ x \in ModuleBound(SubSeq(stmts, 1, k))

\* C28: the expressions in the header of a module-level def or class
\* (decorators, default values, bases) are classified with the definition's
\* scope entered: a name read there is used only if it is declared global or
\* already bound at module level at that point, not as a read at module scope;
\* class C(x): pass and @x def f(): pass with x unbound use nothing.
C28_HeaderReadsAreNested ==
    Analysed =>
       /\ \A x \in used(1) :
             \/ x \in VisitedReads(Fragment, {0})
             \/ x \in AllGlobals(Fragment)
             \/ ReadOnceBound(Fragment, x)
       /\ Fragment = <<class_C_base>> =>
             output.results[1] = Result(Batch[1].id, <<n_C>>, << >>, << >>)
       /\ Fragment = <<def_f_decorated>> =>
             output.results[1] = Result(Batch[1].id, <<n_f>>, << >>, << >>)

\* C28 happens: class C(x): pass stands before x = 1, and x is defined but
\* not used
C28_Witness ==
    /\ Analysed
    /\ Fragment = <<class_C_base, s_assign>>
    /\ output.results[1].definedVariables = <<n_C, n_x>>
    /\ output.results[1].usedVariables = << >>

\* the names declared global outside every def (module level, class bodies)
RECURSIVE GlobalsOutsideDefs(_)
GlobalsOutsideDefs(node) ==
    IF IsFunction(node) THEN {}
    ELSE (IF node.kind = "Global" THEN Range(node.names) ELSE {})
         \cup UNION {GlobalsOutsideDefs(c) : c \in Range(Children(node))}

\* the returns into visit_ClassDef and visit_FunctionDef that are pending
PendingExits == {k \in 1..Len(work) : work[k].op # "visit"}

\* C30: during a walk, at every node visited the depth of scope_stack is the
\* number of defs and classes around the node; every push has its pop pending
\* or done; when the walk is over scope_stack is empty and function_globals
\* holds nothing that a def declared: it is the set as it was outside every
\* def.
C30_ScopeStackDiscipline ==
    pc = "walk" =>
       /\ Len(visitor.scope_stack) = Cardinality(PendingExits)
       /\ (work # << >> /\ Head(work).op = "visit") =>
             \E o \in Visited(Module(Fragment), 0) :
                 o.node = Head(work).node /\ o.depth = Len(visitor.scope_stack)
       /\ work = << >> =>
             /\ visitor.scope_stack = << >>
             /\ visitor.function_globals = GlobalsOutsideDefs(Module(Fragment))

\* C30 happens: the walk is at return x inside def g inside def f, where f
\* declared x global and g did not
C30_Witness ==
    /\ pc = "walk"
    /\ Fragment = <<def_f_global_nested_def>>
    /\ work # << >> /\ Head(work) = VisitFrame(s_return)
    /\ visitor.scope_stack = <<n_f, n_g>>
    /\ visitor.function_globals = {}

(***************************************************************************)
(* SpecStore: one code block of up to MaxTop statements among the four     *)
(* assignment forms and the other statements and expressions that hold a   *)
(* name in a store context (for, with, tuple unpacking, comprehension), a   *)
(* lambda, and the same inside a def.                                      *)
(***************************************************************************)
n_i == <<"i">>

\* for i in y: pass
s_for == Inner("For", <<Store(n_i), Load(n_y), Pass>>)
\* with y as x: pass
s_with == Inner("With", <<Inner("withitem", <<Load(n_y), Store(n_x)>>), Pass>>)
\* a, b = y
s_unpack ==
    Assign(<<Node("Tuple", << >>, "Store", << >>, << >>, <<Store(n_a), Store(n_b)>>, << >>)>>,
           Load(n_y))
\* [i for i in y]
s_listcomp ==
    Expr(Inner("ListComp", <<Load(n_i), Inner("comprehension", <<Store(n_i), Load(n_y)>>)>>))
\* lambda a: a
s_lambda ==
    Expr(Inner("Lambda", <<Inner("arguments", <<Leaf("arg", n_a, "")>>), Load(n_a)>>))
\* def f(): for i in y: pass
def_f_for == FunctionDef(n_f, << >>, <<s_for>>, << >>)
\* def f(): [i for i in y]
def_f_listcomp == FunctionDef(n_f, << >>, <<s_listcomp>>, << >>)
\* class C: with y as x: pass
class_C_with == ClassDef(n_C, << >>, <<s_with>>, << >>)

StoreStmts ==
    {s_assign, s_assign_y, s_aug, s_ann, s_walrus, s_read, s_for, s_with, s_unpack,
     s_listcomp, s_lambda, def_f_for, def_f_listcomp, class_C_with}

StoreFragments == UNION {[1..n -> StoreStmts] : n \in 0..MaxTop}

InitStore ==
    /\ transport \in {"embedded", "file"}
    /\ container \in {Container("ok", <<CodeBlock("1", f)>>) : f \in StoreFragments}
    /\ InitCommon

SpecStore == InitStore /\ [][NextCode]_vars

(***************************************************************************)
(* Properties of store contexts, checked under SpecStore.                  *)
(***************************************************************************)
\* the names in a store context, and the defs and classes, that are visited
\* with scope_stack empty
StoredAtModuleLevel(stmts) ==
    {o.node.id : o \in {q \in UNION {Visited(stmts[k], 0) : k \in 1..Len(stmts)} :
                           q.depth = 0 /\ Binds(q.node)}}

\* C27: while scope_stack is empty every name in a store context is defined,
\* not only the targets of the four assignment forms: a for target, a with
\* target, the elements of a tuple target and a comprehension variable are in
\* definedVariables, since lambdas and comprehensions enter no scope; a
\* comprehension variable at module level is both defined and used.
C27_EveryStoreIsDefined ==
    Analysed =>
       /\ defined(1) = StoredAtModuleLevel(Fragment)
       /\ Fragment = <<s_for>> =>
             output.results[1] = Result(Batch[1].id, <<n_i>>, <<n_y>>, << >>)
       /\ Fragment = <<s_with>> =>
             output.results[1] = Result(Batch[1].id, <<n_x>>, <<n_y>>, << >>)
       /\ Fragment = <<s_unpack>> =>
             output.results[1] = Result(Batch[1].id, <<n_a, n_b>>, <<n_y>>, << >>)
       /\ Fragment = <<s_listcomp>> =>
             output.results[1] = Result(Batch[1].id, <<n_i>>, <<n_i, n_y>>, << >>)
       /\ Fragment = <<s_lambda>> =>
             output.results[1] = Result(Batch[1].id, << >>, <<n_a>>, << >>)

\* C27 happens: [i for i in y] at module level, after a def holding the same
\* comprehension: i is defined and used on account of the second one
C27_Witness ==
    /\ Analysed
    /\ Fragment = <<def_f_listcomp, s_listcomp>>
    /\ output.results[1].definedVariables = <<n_f, n_i>>
    /\ output.results[1].usedVariables = <<n_i, n_y>>

(***************************************************************************)
(* The queries of SpecTemplate: one sql block whose text is up to          *)
(* MaxSqlLines lines among the lines below: an expression after FROM, a    *)
(* {% set %} statement over two lines with a keyword inside, keywords in   *)
(* three cases, a stoplist word, keywords glued to other word characters,  *)
(* an expression of two names, a set target, a loop and its end.           *)
(***************************************************************************)
\* FROM {{ t }} WHERE x = 1
t_from_expr ==
    <<"F","R","O","M"," ","{","{"," ","t"," ","}","}"," ","W","H","E","R","E"," ","x"," ","=",
      " ","1">>

\* {% set x = INTO
t_set_open ==
    <<"{","%"," ","s","e","t"," ","x"," ","="," ","I","N","T","O">>

\* or b %} join c
t_set_close ==
    <<"o","r"," ","b"," ","%","}"," ","j","o","i","n"," ","c">>

\* Update Users from LIMIT
t_stop ==
    <<"U","p","d","a","t","e"," ","U","s","e","r","s"," ","f","r","o","m"," ","L","I","M","I",
      "T">>

\* xFROM a FROM_ b from2 c
t_glued ==
    <<"x","F","R","O","M"," ","a"," ","F","R","O","M","_"," ","b"," ","f","r","o","m","2"," ",
      "c">>

\* {{ a + b }}
t_sum ==
    <<"{","{"," ","a"," ","+"," ","b"," ","}","}">>

\* {% set s = 1 %}{{ s }}
t_set ==
    <<"{","%"," ","s","e","t"," ","s"," ","="," ","1"," ","%","}","{","{"," ","s"," ","}","}">>

TemplateLines ==
    {t_from_expr, t_set_open, t_set_close, t_stop, t_glued, t_sum, t_set, q_for, q_endfor}

TemplateTexts == UNION {[1..n -> TemplateLines] : n \in 1..MaxSqlLines}

InitTemplate ==
    /\ transport \in {"embedded", "file"}
    /\ container \in {Container("ok", <<Block("1", t_sql, Text(q), NoMetadata)>>) :
                         q \in TemplateTexts}
    /\ InitCommon

SpecTemplate == InitTemplate /\ [][NextBlock]_vars

(***************************************************************************)
(* Properties of the two steps of extract_jinja_variables, checked under   *)
(* SpecTemplate.  The regions and the keywords are described by position.  *)
(***************************************************************************)
\* the first k >= from where a, b stand in s, 0 when there is none
FirstAt(s, from, a, b) ==
    LET at == {k \in from..(Len(s) - 1) : s[k] = a /\ s[k + 1] = b}
    IN  IF at = {} THEN 0 ELSE CHOOSE k \in at : \A j \in at : k <= j

\* position p lies in an expression region {{ ... }} of one line
InExpression(s, p) ==
    \E o \in 1..p :
        LET c == FirstAt(s, o + 2, "}", "}")
        IN  /\ o < Len(s) /\ s[o] = "{" /\ s[o + 1] = "{"
            /\ c # 0 /\ p <= c + 1
            /\ \A k \in o..c : s[k] # "\n"

\* position p lies in a statement region {% ... %}, of any number of lines
InStatement(s, p) ==
    \E o \in 1..p :
        LET c == FirstAt(s, o + 2, "%", "}")
        IN  /\ o < Len(s) /\ s[o] = "{" /\ s[o + 1] = "%"
            /\ c # 0 /\ p <= c + 1

\* the text without its regions
RECURSIVE KeepFrom(_, _)
KeepFrom(s, p) ==
    IF p > Len(s) THEN << >>
    ELSE (IF InExpression(s, p) \/ InStatement(s, p) THEN << >> ELSE <<s[p]>>)
         \o KeepFrom(s, p + 1)

Remaining(s) == KeepFrom(s, 1)

RelationKeywords ==
    { <<"f","r","o","m">>, <<"j","o","i","n">>, <<"i","n","t","o">>, <<"u","p","d","a","t","e">> }

Stoplist ==
    { <<"s","e","l","e","c","t">>, <<"w","h","e","r","e">>, <<"g","r","o","u","p">>,
      <<"o","r","d","e","r">>, <<"h","a","v","i","n","g">>, <<"l","i","m","i","t">>,
      <<"o","f","f","s","e","t">>, <<"u","n","i","o","n">>,
      <<"i","n","t","e","r","s","e","c","t">>, <<"e","x","c","e","p","t">> }

\* the word kw, in any case, stands at p..e of r and is a whole word on its left
KeywordAt(r, p, e, kw) ==
    /\ e = p + Len(kw) - 1 /\ e <= Len(r)
    /\ p = 1 \/ ~IsWord(r[p - 1])
    /\ \A k \in 1..Len(kw) : ToLower(r[p + k - 1]) = kw[k]

\* the identifier r[q..e], maximal on its right
IdentifierAt(r, q, e) ==
    /\ q <= e /\ e <= Len(r)
    /\ IsLetter(r[q]) \/ r[q] = "_"
    /\ \A k \in q..e : IsWord(r[k])
    /\ e = Len(r) \/ ~IsWord(r[e + 1])

\* the identifiers that follow a relation keyword of r after white space only
FollowingKeyword(r) ==
    UNION {UNION {UNION {
        IF /\ KeywordAt(r, p, p + Len(kw) - 1, kw)
           /\ \A k \in (p + Len(kw))..(q - 1) : IsSpace(r[k])
        THEN {SubSeq(r, q, e) : e \in {f \in q..Len(r) : IdentifierAt(r, q, f)}}
        ELSE {}
        : q \in (p + Len(kw) + 1)..Len(r)} : kw \in RelationKeywords} : p \in 1..Len(r)}

RegionTexts(s, a, b, c, d) ==
    {SubSeq(s, o + 2, FirstAt(s, o + 2, c, d) - 1) :
        o \in {k \in 1..(Len(s) - 1) :
                  s[k] = a /\ s[k + 1] = b /\ FirstAt(s, k + 2, c, d) # 0}}

\* the names referenced in the {{ }} expressions of s
Referenced(s) == UNION {ExprNames(Tokens(e)) : e \in RegionTexts(s, "{", "{", "}", "}")}

\* the names s binds itself: the loop variables of {% for %} and the targets
\* of {% set %}
BoundByTag(toks) ==
    IF Len(toks) > 2 /\ toks[1] = <<"f","o","r">>
    THEN {toks[k] : k \in {j \in 2..Len(toks) :
             IsNameToken(toks[j]) /\ \A h \in 2..j : toks[h] # <<"i","n">>}}
    ELSE IF Len(toks) > 2 /\ toks[1] = <<"s","e","t">> THEN {toks[2]}
    ELSE {}

LocallyBound(s) == UNION {BoundByTag(Tokens(e)) : e \in RegionTexts(s, "{", "%", "%", "}")}

\* C24: for a template the reference parser accepts, a name the template binds
\* itself and leaves free nowhere is not reported (unless it is a relation
\* name), every name referenced in a {{ }} expression and bound nowhere is
\* reported, and the regular-expression variant and the reference-parser
\* variant return the same set.
C24_FreeVariables ==
    (Analysed /\ find_undeclared_variables(QueryText).ok) =>
       LET reported == Range(output.results[1].usedVariables)
           free == find_undeclared_variables(QueryText).vars
       IN  /\ ~output.results[1].error.present
           /\ reported \cap (LocallyBound(QueryText) \ (free \cup RelationNames)) = {}
           /\ Referenced(QueryText) \ LocallyBound(QueryText) \subseteq reported
           /\ extract_jinja_variables_regex(QueryText)
                 = extract_jinja_variables_jinja(QueryText).vars

(***************************************************************************)
(* The sources of SpecMagic: one code block, of type code or without a     *)
(* type, whose source is up to MaxTop lines among: two magics, the same     *)
(* behind leading white space, a comment, a blank line, an assignment, a   *)
(* def, an import of two names and a line that does not parse.             *)
(***************************************************************************)
m_percent == RawLine(<<"%","l","s">>)
m_bang == RawLine(<<"!","p","i","p"," ","i","n","s","t","a","l","l"," ","x">>)
m_indented == RawLine(<<" "," ","%","l","s">>)
m_indented_bang == RawLine(<<" "," ","!","l","s">>)
m_comment == RawLine(<<"#"," ","%","l","s">>)
m_blank == RawLine(<< >>)
m_unparsable == RawLine(<<"x"," ","="," ","(">>)

MagicLines ==
    {m_percent, m_bang, m_indented, m_indented_bang, m_comment, m_blank, m_unparsable,
     StmtLine(stmt_a), StmtLine(def_f_return_x), StmtLine(i_two)}

MagicSources == UNION {[1..n -> MagicLines] : n \in 1..MaxTop}

InitMagic ==
    /\ transport \in {"embedded", "file"}
    /\ container \in {Container("ok", <<Block("1", type, Content("str", src), NoMetadata)>>) :
                         type \in {t_code, PyNone}, src \in MagicSources}
    /\ InitCommon

\* the steps of a batch of code blocks, parsed or rejected by the parser
NextParse ==
    \/ Start
    \/ AnalyzeBlock
    \/ BeginCode
    \/ WalkStep
    \/ EndCode
    \/ Finish

SpecMagic == InitMagic /\ [][NextParse]_vars

(***************************************************************************)
(* Properties of the magic lines, checked under SpecMagic.                 *)
(***************************************************************************)
Source == Batch[1].content.lines
BeginsWithMagic(line) == Len(line.text) >= 1 /\ line.text[1] \in {"%", "!"}

\* a line the parser rejects once the magics are neutralised
Rejected(line) ==
    /\ ~IsStmtLine(line) /\ ~BeginsWithMagic(line)
    /\ \E k \in 1..Len(line.text) :
          /\ line.text[k] \notin {" ", "\t", "#"}
          /\ \A j \in 1..(k - 1) : line.text[j] \in {" ", "\t"}

\* C25: the source the parser is given has the lines of the block's source
\* in number and order, each line beginning with % or ! prefixed with # and
\* every other line, the ones with % or ! behind white space included,
\* unchanged; the parser sees the neutralised source: the block has an error
\* exactly when a line that is no magic is rejected, and %ls before a = 42
\* gives definedVariables [a].
C25_MagicNeutralisation ==
    (pc \in {"loop", "walk", "done"}) =>
       LET parsed == ParsedLines(transport, blocks[1])
       IN  /\ Len(parsed) = Len(Source)
           /\ \A k \in 1..Len(Source) :
                 IF BeginsWithMagic(Source[k])
                 THEN parsed[k] = [Source[k] EXCEPT !.text = <<"#">> \o Source[k].text]
                 ELSE parsed[k] = Source[k]
           /\ pc = "walk" => \A k \in 1..Len(Source) : ~Rejected(Source[k])
           /\ Analysed =>
                 /\ output.results[1].error.present
                       <=> \E k \in 1..Len(Source) : Rejected(Source[k])
                 /\ Source = <<m_percent, StmtLine(stmt_a)>>
                       => output.results[1] = Result(Batch[1].id, <<n_a>>, << >>, << >>)

\* C25 happens: !pip install x was neutralised, %ls behind two blanks was not
\* and the parser rejected it
C25_Witness ==
    /\ Analysed
    /\ Source = <<m_bang, m_indented>>
    /\ ParsedLines(transport, blocks[1])
          = <<RawLine(<<"#">> \o m_bang.text), m_indented>>
    /\ output.results[1].error.present
    /\ output.results[1].error.type = "IndentationError"

\* the transport that did not run
OtherTransport == IF transport = "embedded" THEN "file" ELSE "embedded"

\* C29: for a block of type code or without a type, the result of the
\* transport that ran has the definedVariables, the usedVariables, the set of
\* importedModules and the error class (or no error) that the other transport
\* computes for the block with the same source.
C29_TransportsAgreeOnCode ==
    Analysed =>
       \E other \in AloneResults(OtherTransport, Batch[1]) :
          /\ output.results[1].definedVariables = other.definedVariables
          /\ output.results[1].usedVariables = other.usedVariables
          /\ Range(output.results[1].importedModules) = Range(other.importedModules)
          /\ output.results[1].error = other.error

\* C29 happens: the file transport analysed a block without a type holding a
\* magic, an import of two names and nothing else, as the embedded one does
C29_Witness ==
    /\ Analysed /\ transport = "file"
    /\ Batch[1].type = PyNone
    /\ Source = <<m_percent, StmtLine(i_two)>>
    /\ Range(output.results[1].importedModules) = {n_pd, n_x}
    /\ ~output.results[1].error.present
====
